---- MODULE Spec2Model ----
(***************************************************************************)
(* Strategy-evaluation engine of multiexchangetrade:                       *)
(*   - WeightedSignalGenerator  (src/indicators/weighted_signals.py)       *)
(*   - EnhancedBacktester._simulate_trading and the metrics stage          *)
(*     (src/backtester/enhanced_backtester.py)                             *)
(*   - AdvancedRiskManager (utils/advanced_risk.py), whose source is not   *)
(*     part of src/: it is modelled from sections 3 and 4.3 of the spec.   *)
(*                                                                         *)
(* Fixed-point units (the code uses floats):                               *)
(*   weights          1e-4        (0.4 is 4000)                            *)
(*   sub-signals      1e-1        (0.5 is 5)                               *)
(*   weighted signal  1e-5        (0.3 is 30000)                           *)
(*   bar prices       whole currency units                                 *)
(*   price levels     cents       (stop, tp1, tp2, runner)                 *)
(*   money            cents       (capital, pnl)                           *)
(*   quantities       1e-2 units  (100 units is 10000)                     *)
(***************************************************************************)
EXTENDS Integers, Sequences, FiniteSets, TLC

(***************************************************************************)
(* Bounds of the model.                                                    *)
(***************************************************************************)
MaxBarIdx == 4

MaxPositions == 2

MaxDays == 4

MaxReruns == 3

(***************************************************************************)
(* Input domains.                                                          *)
(***************************************************************************)
\* Constructor arguments, in 1e-4. All are multiples of 8e-4, so no sum of
\* three lies exactly on the 1.0 +/- 0.001 edge, where float rounding decides.
WeightVals == {-2000, 0, 2000, 4000, 4008, 6000}

\* Not-a-number, as numpy produces it for an undefined indicator value.
NaN == -99999

\* Sub-signal strengths in 1e-1: RSI and momentum are continuous in [-1, 1],
\* WaveTrend takes one of four values. With these values and WeightVals the
\* float sum of the code lies on the same side of +/-0.3 as the exact sum.
RsiSigVals == {-10, -3, 3, 10, NaN}

WtSigVals == {-10, -5, 5, 10}

BsSigVals == {-10, -3, 3, 10, NaN}

\* WT1 and WT2 of a bar, as the WaveTrend indicator gives them (NaN on the
\* first bars).
WtVals == {-60, -50, 0, 50, 60, NaN}

\* Weighted signals given to get_signal_strength, in 1e-5.
StrengthVals ==
    {NaN, 0, 9999, 10000, 29999, 30000, 69999, 70000, 100000, 110000,
     -9999, -10000, -29999, -30000, -69999, -70000, -100000, -110000}

\* Close of the latest bar the dashboard has loaded, in whole units; 0 is what
\* line 1663 makes of a NaN close.
LivePrices == {0, 100, 107}

\* len(df) - 1 of the frame fetch_ohlcv_df gives in a script run.
LiveLatestIdxVals == {1, 2}

\* Quantities position_size_from_risk returns (0: nothing to buy).
LiveQtyVals == {0, 10}

\* What the backtest run from the dashboard returns: its trades, and its 'df':
\* with an equity (a dict, where a missing 'equity' reads as [], or a frame with
\* an 'equity' column), or without one (no frame, or a frame without the column).
BacktestResults ==
    { [trades |-> <<>>, has_equity |-> TRUE, equity |-> <<>>],
      [trades |-> <<[entry_idx |-> 0, exit_idx |-> 1, entry_price |-> 100,
                     exit_price |-> 107, pnl |-> 70]>>,
       has_equity |-> TRUE, equity |-> <<10000, 10070>>],
      [trades |-> <<[entry_idx |-> 0, exit_idx |-> 1, entry_price |-> 100,
                     exit_price |-> 107, pnl |-> 70]>>,
       has_equity |-> FALSE, equity |-> <<>>] }

\* risk_per_trade of the run in 1e-4: the default 0.02, and 0 (no risk budget,
\* so that the computed quantity is not positive).
RiskPerTradeVals == {0, 200}

\* pnl of a close record in cents, as the metrics stage is given it.
PnlVals == {-70000, 0, 40000, 50000}

\* Close prices of the bars.
Prices == {95, 100, 105}

\* tp1_multiplier, tp2_multiplier, runner_multiplier in halves: 1.5/2.0/3.0 are
\* the defaults of run_enhanced_backtest; the second configuration puts tp1
\* beyond the stop level (tp1_multiplier = -2.5), so that a price can meet the
\* stop-loss and the take-profit condition at once.
MultiplierConfigs ==
    { [tp1 |-> 3, tp2 |-> 4, runner |-> 6],
      [tp1 |-> -5, tp2 |-> 4, runner |-> 6] }

(***************************************************************************)
(* Program constants.                                                      *)
(***************************************************************************)
WeightOne == 10000

WeightTolerance == 10

LongThreshold == 30000

ShortThreshold == -30000

InitialCapital == 1000000

RiskPerTradeBps == 200

DailyLossLimitBps == 500

LongStopPct == 98

ShortStopPct == 102

MaxBarsInTrade == 2

LiveInitialCash == 10000

LiveStopLossPct == 3

LiveTakeProfitPct == 6

LiveMaxBarsInTrade == 1

WtOversold == -50

WtOverbought == 50

VeryStrongBand == 70000

StrongBand == 30000

WeakBand == 10000

VARIABLES
    \* WeightedSignalGenerator
    gen_status,         \* "unconstructed" | "constructed" | "ValueError"
    ctor_args,          \* the arguments given to __init__
    rsi_weight, wavetrend_weight, buy_sell_weight,
    signal_out,         \* the bundles generate_weighted_signal returned, newest last
    \* _simulate_trading
    pc,                 \* position of the loop: "next_row" | "update" | "done";
                        \* "raised" when run_enhanced_backtest raised before the loop
    mult,               \* tp1/tp2/runner multipliers of the run
    bar_idx,            \* index of the current row (0 before the first)
    row,                \* the current row of df
    current_date,       \* 0 is None
    risk_manager,       \* the AdvancedRiskManager of the run
    iter_copy,          \* ids of risk_manager.positions[:], taken when the update loop starts
    iter_i,             \* index of the update loop
    trades,             \* the ledger
    daily_summaries,
    \* observation (not program state)
    bar_log,            \* calls made to the risk manager during the current bar
    book,               \* per position id: status and quantities, kept after closing
    last_update,        \* what the last update_position call saw and decided
    day_realized,       \* per calendar day: pnl realized by the exits of that day
    days_seen,          \* calendar days of the rows processed
    open_at_bar_start,  \* ids of the positions open when the current bar started
    last_reset,         \* risk manager before and after the last reset_daily_tracking
    ts_regressed,       \* a row dated before the row preceding it has been processed
    \* _calculate_enhanced_metrics
    metrics_in,         \* results: the ledger and the daily summaries given to the metrics stage
    metrics_out,        \* the metrics returned (empty before the call)
    \* the caller of a batch run
    cancel_requested,   \* the caller has asked the run to stop
    \* generate_wavetrend_signal and get_signal_strength
    wt_call,            \* wt1 and wt2 of a bar, and the sub-signal returned (empty before the call)
    strength_call,      \* a weighted signal, and the label returned ("none" before the call)
    \* the dashboard script (app.py) and its live trading block
    session_state,      \* st.session_state: is_trading, paper_mode, account_validation,
                        \* position, trades, account, backtest_trigger, and
                        \* real_orders (real_account_data is set and lists open orders)
    api_keys,           \* the API key and secret of the exchange selected are set in
                        \* the environment
    paper_radio,        \* the trading-mode radio shows Paper (widget state, kept
                        \* between the script runs)
    last_run,           \* observation: what the last script run did
    runs                \* observation: number of script runs so far

sigvars == <<gen_status, ctor_args, rsi_weight, wavetrend_weight, buy_sell_weight, signal_out>>

simvars == <<pc, mult, bar_idx, row, current_date, risk_manager, iter_copy, iter_i,
             trades, daily_summaries>>

obsvars == <<bar_log, book, last_update, day_realized, days_seen, open_at_bar_start, last_reset,
             ts_regressed>>

metvars == <<metrics_in, metrics_out>>

ctlvars == <<cancel_requested>>

indvars == <<wt_call, strength_call>>

\* The variables of the components beside the engine.
livevars == <<session_state, api_keys, paper_radio, last_run, runs>>

sidevars == <<ctlvars, indvars, livevars>>

vars == <<sigvars, simvars, obsvars, metvars, sidevars>>

Abs(x) == IF x < 0 THEN -x ELSE x

Last(s) == s[Len(s)]

Max(a, b) == IF a > b THEN a ELSE b

Min(a, b) == IF a < b THEN a ELSE b

(***************************************************************************)
(* WeightedSignalGenerator                                                 *)
(***************************************************************************)
\* __init__ with the range check dropped.
ValidWeightsUnchecked(rw, ww, bw) == TRUE

\* __init__: abs(total_weight - 1.0) > 0.001 raises ValueError.
ValidWeights(rw, ww, bw) == ~(Abs((rw + ww + bw) - WeightOne) > WeightTolerance)

\* rsi_sig * rsi_weight + wt_sig * wavetrend_weight + bs_sig * buy_sell_weight
WeightedSignal(rsi_sig, wt_sig, bs_sig, rw, ww, bw) ==
    IF rsi_sig = NaN \/ wt_sig = NaN \/ bs_sig = NaN
    THEN NaN
    ELSE rsi_sig * rw + wt_sig * ww + bs_sig * bw

\* final_long = weighted_signal > 0.3 (a comparison with NaN is False)
FinalLong(ws) == ws # NaN /\ ws > LongThreshold

\* final_short with the comparison turned around.
FinalShortFlipped(ws) == ws # NaN /\ ws > ShortThreshold

\* final_short = weighted_signal < -0.3
FinalShort(ws) == ws # NaN /\ ws < ShortThreshold

\* a > b and a < b on floats: a comparison with NaN is False.
Gt(a, b) == a # NaN /\ b # NaN /\ a > b

Lt(a, b) == a # NaN /\ b # NaN /\ a < b

GtEq(a, b) == a # NaN /\ b # NaN /\ a >= b

LtEq(a, b) == a # NaN /\ b # NaN /\ a <= b

\* The weak branch taken with >=, so that a tie counts as WT1 above WT2.
WavetrendSignalTieUp(wt1, wt2) ==
    IF Gt(wt1, wt2) /\ Lt(wt1, WtOversold) THEN 10
    ELSE IF Lt(wt1, wt2) /\ Gt(wt1, WtOverbought) THEN -10
    ELSE IF GtEq(wt1, wt2) THEN 5
    ELSE -5

\* generate_wavetrend_signal, lines 89-98: the nested np.where on wt1 and wt2,
\* in 1e-1.
WavetrendSignal(wt1, wt2) ==
    IF Gt(wt1, wt2) /\ Lt(wt1, WtOversold) THEN 10
    ELSE IF Lt(wt1, wt2) /\ Gt(wt1, WtOverbought) THEN -10
    ELSE IF Gt(wt1, wt2) THEN 5
    ELSE -5

\* The sell bands compared strictly.
get_signal_strength_strict_sell(weighted_signal) ==
    IF GtEq(weighted_signal, VeryStrongBand) THEN "Very Strong Buy"
    ELSE IF GtEq(weighted_signal, StrongBand) THEN "Strong Buy"
    ELSE IF GtEq(weighted_signal, WeakBand) THEN "Weak Buy"
    ELSE IF Lt(weighted_signal, -VeryStrongBand) THEN "Very Strong Sell"
    ELSE IF Lt(weighted_signal, -StrongBand) THEN "Strong Sell"
    ELSE IF Lt(weighted_signal, -WeakBand) THEN "Weak Sell"
    ELSE "Neutral"

\* get_signal_strength(weighted_signal), lines 183-196
get_signal_strength(weighted_signal) ==
    IF GtEq(weighted_signal, VeryStrongBand) THEN "Very Strong Buy"
    ELSE IF GtEq(weighted_signal, StrongBand) THEN "Strong Buy"
    ELSE IF GtEq(weighted_signal, WeakBand) THEN "Weak Buy"
    ELSE IF LtEq(weighted_signal, -VeryStrongBand) THEN "Very Strong Sell"
    ELSE IF LtEq(weighted_signal, -StrongBand) THEN "Strong Sell"
    ELSE IF LtEq(weighted_signal, -WeakBand) THEN "Weak Sell"
    ELSE "Neutral"

\* generate_wavetrend_signal on one bar, given wt1 and wt2 of the bar.
GenerateWavetrendSignal ==
    /\ wt_call.signal = <<>>
    /\ wt_call' = [wt_call EXCEPT !.signal = <<WavetrendSignal(wt_call.wt1, wt_call.wt2)>>]
    /\ UNCHANGED <<sigvars, simvars, obsvars, metvars, ctlvars, strength_call, livevars>>

\* get_signal_strength(weighted_signal)
GetSignalStrength ==
    /\ strength_call.label = "none"
    /\ strength_call' =
          [strength_call EXCEPT !.label = get_signal_strength(strength_call.weighted_signal)]
    /\ UNCHANGED <<sigvars, simvars, obsvars, metvars, ctlvars, wt_call, livevars>>

IndicatorInit ==
    /\ wt_call \in [wt1 : WtVals, wt2 : WtVals, signal : {<<>>}]
    /\ strength_call \in [weighted_signal : StrengthVals, label : {"none"}]

SignalInit ==
    /\ gen_status = "unconstructed"
    /\ ctor_args = <<0, 0, 0>>
    /\ rsi_weight = 0
    /\ wavetrend_weight = 0
    /\ buy_sell_weight = 0
    /\ signal_out = <<>>

\* WeightedSignalGenerator(rw, ww, bw)
Construct ==
    /\ gen_status = "unconstructed"
    /\ \E rw \in WeightVals, ww \in WeightVals, bw \in WeightVals :
        /\ ctor_args' = <<rw, ww, bw>>
        /\ rsi_weight' = rw
        /\ wavetrend_weight' = ww
        /\ buy_sell_weight' = bw
        /\ gen_status' = IF ValidWeights(rw, ww, bw) THEN "constructed" ELSE "ValueError"
    /\ UNCHANGED <<signal_out, simvars, obsvars, metvars, sidevars>>

\* generate_weighted_signal on one bar, given the three sub-signals of the bar.
GenerateWeightedSignal ==
    /\ gen_status = "constructed"
    /\ signal_out = <<>>
    /\ \E rsi_sig \in RsiSigVals, wt_sig \in WtSigVals, bs_sig \in BsSigVals :
        LET ws == WeightedSignal(rsi_sig, wt_sig, bs_sig,
                                 rsi_weight, wavetrend_weight, buy_sell_weight)
        IN signal_out' = <<[rsi_signal |-> rsi_sig,
                            wavetrend_signal |-> wt_sig,
                            buy_sell_signal |-> bs_sig,
                            weighted_signal |-> ws,
                            final_long |-> FinalLong(ws),
                            final_short |-> FinalShort(ws)]>>
    /\ UNCHANGED <<gen_status, ctor_args, rsi_weight, wavetrend_weight, buy_sell_weight,
                   simvars, obsvars, metvars, sidevars>>

(***************************************************************************)
(* AdvancedRiskManager (modelled from the spec, sections 3 and 4.3)        *)
(***************************************************************************)
NewRiskManager ==
    [ current_capital |-> InitialCapital,
      risk_per_trade |-> RiskPerTradeBps,
      realized_daily_pnl |-> 0,
      breaker_triggered |-> FALSE,
      positions |-> <<>>,
      next_id |-> 1 ]

\* AdvancedRiskManager(initial_capital, risk_per_trade, daily_loss_limit)
AdvancedRiskManager(risk_per_trade) ==
    [NewRiskManager EXCEPT !.risk_per_trade = risk_per_trade]

\* Capital at the start of the current day: capital moves only by realized pnl.
StartingCapitalForDay(rm) == rm.current_capital - rm.realized_daily_pnl

\* daily_loss_limit * starting_capital_for_day, rounded up to a whole cent.
DailyLossAmount(rm) == (DailyLossLimitBps * StartingCapitalForDay(rm) + 9999) \div 10000

\* The breaker threshold with a strict comparison.
BreakerReachedStrict(rm) == rm.realized_daily_pnl < -DailyLossAmount(rm)

\* realized_daily_pnl <= -(daily_loss_limit * starting_capital_for_day)
BreakerReached(rm) == rm.realized_daily_pnl <= -DailyLossAmount(rm)

is_daily_breaker_triggered(rm) == rm.breaker_triggered

\* A reset that also restores the capital.
ResetDailyTrackingAll(rm) == NewRiskManager

\* reset_daily_tracking(): zero realized_daily_pnl, clear breaker_triggered.
ResetDailyTracking(rm) ==
    [rm EXCEPT !.realized_daily_pnl = 0, !.breaker_triggered = FALSE]

\* get_portfolio_summary(): a pure read.
PortfolioSummary(rm) ==
    [ starting_capital |-> StartingCapitalForDay(rm),
      current_capital |-> rm.current_capital,
      realized_daily_pnl |-> rm.realized_daily_pnl,
      breaker_triggered |-> rm.breaker_triggered,
      open_positions |-> Len(rm.positions) ]

\* risk_distance = |entry_price - stop_loss_price|, in cents.
RiskDistance(entry_price, stop_loss_price) == Abs(entry_price * 100 - stop_loss_price)

\* The quantity sized on the entry price instead of the risk distance.
SizeQuantityNotional(capital, risk_per_trade, entry_price, stop_loss_price) ==
    LET risk_amount == (capital * risk_per_trade) \div 10000
    IN IF entry_price = 0 THEN 0 ELSE (risk_amount * 100) \div (entry_price * 100)

\* quantity = (current_capital * risk_per_trade) / risk_distance, in 1e-2 units.
SizeQuantity(capital, risk_per_trade, entry_price, stop_loss_price) ==
    LET risk_amount == (capital * risk_per_trade) \div 10000
        rd == RiskDistance(entry_price, stop_loss_price)
    IN IF rd = 0 THEN 0 ELSE (risk_amount * 100) \div rd

\* entry +/- multiplier * risk_distance, in cents (multiplier in halves).
TargetPrice(side, entry_price, stop_loss_price, multiplier) ==
    LET d == (multiplier * RiskDistance(entry_price, stop_loss_price)) \div 2
    IN IF side = "buy" THEN entry_price * 100 + d ELSE entry_price * 100 - d

NewPosition(rm, side, entry_price, stop_loss_price, m) ==
    [ id |-> rm.next_id,
      symbol |-> "SYMBOL",
      side |-> side,
      entry_price |-> entry_price,
      quantity |-> SizeQuantity(rm.current_capital, rm.risk_per_trade,
                                entry_price, stop_loss_price),
      remaining_quantity |-> SizeQuantity(rm.current_capital, rm.risk_per_trade,
                                          entry_price, stop_loss_price),
      stop_loss_price |-> stop_loss_price,
      tp1_price |-> TargetPrice(side, entry_price, stop_loss_price, m.tp1),
      tp2_price |-> TargetPrice(side, entry_price, stop_loss_price, m.tp2),
      runner_activation_price |-> TargetPrice(side, entry_price, stop_loss_price, m.runner),
      targets_hit |-> 0,
      bars_held |-> 0,
      status |-> "OPEN" ]

\* open_position returns None when the breaker is triggered or quantity <= 0.
OpenAllowed(rm, quantity) == ~rm.breaker_triggered /\ quantity > 0

\* open_position(...): the manager after the call and the position, if any.
open_position(rm, side, entry_price, stop_loss_price, m) ==
    LET p == NewPosition(rm, side, entry_price, stop_loss_price, m)
    IN IF OpenAllowed(rm, p.quantity)
       THEN [ rm |-> [rm EXCEPT !.positions = Append(@, p), !.next_id = @ + 1],
              position |-> <<p>> ]
       ELSE [ rm |-> rm, position |-> <<>> ]

StopHit(p, price) ==
    IF p.side = "buy" THEN price * 100 <= p.stop_loss_price
                      ELSE price * 100 >= p.stop_loss_price

\* The next take-profit level of the position.
NextTarget(p) ==
    IF p.targets_hit = 0 THEN p.tp1_price
    ELSE IF p.targets_hit = 1 THEN p.tp2_price
    ELSE p.runner_activation_price

TargetHit(p, price) ==
    IF p.side = "buy" THEN price * 100 >= NextTarget(p)
                      ELSE price * 100 <= NextTarget(p)

TargetReason(p) ==
    IF p.targets_hit = 0 THEN "tp1" ELSE IF p.targets_hit = 1 THEN "tp2" ELSE "runner"

\* Counted with the bar being processed.
MaxBarsHit(p) == p.bars_held + 1 >= MaxBarsInTrade

\* Exit precedence with take-profit ahead of stop-loss.
ExitReasonTargetFirst(p, price) ==
    IF TargetHit(p, price) THEN TargetReason(p)
    ELSE IF StopHit(p, price) THEN "stop_loss"
    ELSE IF MaxBarsHit(p) THEN "max_bars"
    ELSE "none"

\* Exit precedence: stop-loss, then take-profit, then max-bars-in-trade.
ExitReason(p, price) ==
    IF StopHit(p, price) THEN "stop_loss"
    ELSE IF TargetHit(p, price) THEN TargetReason(p)
    ELSE IF MaxBarsHit(p) THEN "max_bars"
    ELSE "none"

\* tp1 and tp2 release a third of original_quantity; every other exit releases the rest.
ReleasedQuantity(p, reason) ==
    IF reason \in {"tp1", "tp2"} THEN p.quantity \div 3 ELSE p.remaining_quantity

\* The pnl of an exit taken on all that remains of the position.
RealizedPnlMarked(p, price, quantity) ==
    IF p.side = "buy" THEN (price - p.entry_price) * p.remaining_quantity
                      ELSE (p.entry_price - price) * p.remaining_quantity

\* pnl of the released quantity: (exit - entry) * quantity, sign by side.
RealizedPnl(p, price, quantity) ==
    IF p.side = "buy" THEN (price - p.entry_price) * quantity
                      ELSE (p.entry_price - price) * quantity

IndexOfId(positions, id) ==
    IF \E i \in 1..Len(positions) : positions[i].id = id
    THEN CHOOSE i \in 1..Len(positions) : positions[i].id = id
    ELSE 0

\* A close that leaves the position in the list.
RemoveAtKeep(s, i) == s

\* positions without its i-th element.
RemoveAt(s, i) == [j \in 1..(Len(s) - 1) |-> IF j < i THEN s[j] ELSE s[j + 1]]

\* The manager after realizing pnl: capital, daily counter, breaker latch.
Realize(rm, pnl) ==
    LET r == [rm EXCEPT !.current_capital = @ + pnl, !.realized_daily_pnl = @ + pnl]
    IN [r EXCEPT !.breaker_triggered = @ \/ BreakerReached(r)]

\* update_position(position_id, current_price) -> {status, trade?}
update_position(rm, id, price) ==
    LET i == IndexOfId(rm.positions, id)
    IN IF i = 0
       THEN [ rm |-> rm, status |-> "not_found", trade |-> <<>> ]
       ELSE
        LET p == rm.positions[i]
            reason == ExitReason(p, price)
            q == ReleasedQuantity(p, reason)
            pnl == RealizedPnl(p, price, q)
            closes == reason \in {"runner", "stop_loss", "max_bars"}
            aged == [p EXCEPT !.bars_held = @ + 1]
            partial == [aged EXCEPT !.remaining_quantity = @ - q,
                                    !.targets_hit = @ + 1,
                                    !.status = "PARTIALLY_CLOSED"]
            trade == [ position_id |-> p.id,
                       symbol |-> p.symbol,
                       side |-> p.side,
                       entry_price |-> p.entry_price,
                       exit_price |-> price,
                       quantity |-> q,
                       pnl |-> pnl,
                       exit_reason |-> reason,
                       action |-> "close" ]
        IN IF reason = "none"
           THEN [ rm |-> [rm EXCEPT !.positions[i] = aged],
                  status |-> "open", trade |-> <<>> ]
           ELSE IF closes
           THEN [ rm |-> Realize([rm EXCEPT !.positions = RemoveAt(@, i)], pnl),
                  status |-> "fully_closed", trade |-> <<trade>> ]
           ELSE [ rm |-> Realize([rm EXCEPT !.positions[i] = partial], pnl),
                  status |-> "partially_closed", trade |-> <<trade>> ]

(***************************************************************************)
(* EnhancedBacktester._calculate_enhanced_metrics                          *)
(* A float is a reduced fraction [num, den] with den > 0; float('inf') is  *)
(* [num |-> 1, den |-> 0].                                                 *)
(***************************************************************************)
RECURSIVE GCD(_, _)
GCD(a, b) == IF b = 0 THEN a ELSE GCD(b, a % b)

Rat(n, d) ==
    LET g == GCD(Abs(n), d)
    IN [num |-> n \div g, den |-> d \div g]

Zero == [num |-> 0, den |-> 1]

Infinity == [num |-> 1, den |-> 0]

RECURSIVE RatLessEq(_, _, _, _)
\* a/b <= c/d for a, c >= 0 and b, d > 0, without forming the cross products.
RatLessEq(a, b, c, d) ==
    IF a \div b # c \div d THEN a \div b < c \div d
    ELSE IF a % b = 0 THEN TRUE
    ELSE IF c % d = 0 THEN FALSE
    ELSE RatLessEq(d, c % d, b, a % b)

\* 'pnl' in t
HasPnl(t) == "pnl" \in DOMAIN t

IsWinning(t) == t.pnl > 0

IsLosing(t) == t.pnl < 0

RECURSIVE SumPnl(_, _)
\* sum(t['pnl'] for t in ts[:n])
SumPnl(ts, n) == IF n = 0 THEN 0 ELSE SumPnl(ts, n - 1) + ts[n].pnl

RECURSIVE MaxPnl(_, _)
MaxPnl(ts, n) == IF n = 1 THEN ts[1].pnl ELSE Max(ts[n].pnl, MaxPnl(ts, n - 1))

RECURSIVE MinPnl(_, _)
MinPnl(ts, n) == IF n = 1 THEN ts[1].pnl ELSE Min(ts[n].pnl, MinPnl(ts, n - 1))

\* profit_factor = total_profit / total_loss if total_loss > 0 else float('inf')
ProfitFactor(total_profit, total_loss) ==
    IF total_loss > 0 THEN Rat(total_profit, total_loss) ELSE Infinity

\* equity_curve = [ds['current_capital'] for ds in daily_summaries]
EquityCurveOf(summaries) == [i \in 1..Len(summaries) |-> summaries[i].current_capital]

\* returns = np.diff(equity_curve) / equity_curve[:-1]
Returns(curve) ==
    [i \in 1..(Len(curve) - 1) |-> Rat(curve[i + 1] - curve[i], curve[i])]

\* np.std(returns) > 0: the returns are not all the same (the curves of the
\* model hold no three points in geometric progression other than constant
\* ones, for which the float mean of the returns is exact).
StdIsPositive(returns) == \E i, j \in 1..Len(returns) : returns[i] # returns[j]

\* np.mean(returns) / np.std(returns) * np.sqrt(252) if np.std(returns) > 0 else 0;
\* a value that is not the sentinel is kept as the returns it is computed from.
SharpeRatio(returns) ==
    IF StdIsPositive(returns) THEN [mean_over_std_of |-> returns] ELSE Zero

\* The peak taken as the first point of the curve.
RunningPeakFirst(curve, n) == curve[1]

RECURSIVE RunningPeak(_, _)
\* peak = np.maximum.accumulate(equity_curve), at index n
RunningPeak(curve, n) ==
    IF n = 1 THEN curve[1] ELSE Max(curve[n], RunningPeak(curve, n - 1))

\* drawdown = (np.array(equity_curve) - peak) / peak, at index n
Drawdown(curve, n) ==
    LET peak == RunningPeak(curve, n)
    IN Rat(curve[n] - peak, peak)

\* The lesser of two fractions that are <= 0.
RatMin(a, b) == IF RatLessEq(-b.num, b.den, -a.num, a.den) THEN a ELSE b

RECURSIVE MinDrawdown(_, _)
\* np.min(drawdown[:n])
MinDrawdown(curve, n) ==
    IF n = 1 THEN Drawdown(curve, 1)
    ELSE RatMin(MinDrawdown(curve, n - 1), Drawdown(curve, n))

\* (equity_curve[-1] - equity_curve[0]) / equity_curve[0] if len(equity_curve) > 1 else 0
TotalReturn(curve) ==
    IF Len(curve) > 1 THEN Rat(Last(curve) - curve[1], curve[1]) ELSE Zero

\* Lines 420-431: the metrics of an empty ledger.
EmptyMetrics ==
    [ total_trades |-> 0,
      win_rate |-> Zero,
      profit_factor |-> Zero,
      sharpe_ratio |-> Zero,
      max_drawdown |-> Zero,
      total_return |-> Zero,
      avg_trade_return |-> Zero,
      best_trade |-> Zero,
      worst_trade |-> Zero ]

\* Lines 438-486: the metrics of a ledger with closed trades.
FullMetrics(closed_trades, summaries) ==
    LET total_trades == Len(closed_trades)
        winning_trades == SelectSeq(closed_trades, IsWinning)
        losing_trades == SelectSeq(closed_trades, IsLosing)
        total_profit == SumPnl(winning_trades, Len(winning_trades))
        total_loss == Abs(SumPnl(losing_trades, Len(losing_trades)))
        equity_curve == EquityCurveOf(summaries)
    IN [ total_trades |-> total_trades,
         win_rate |-> Rat(Len(winning_trades), total_trades),
         profit_factor |-> ProfitFactor(total_profit, total_loss),
         sharpe_ratio |-> IF summaries # <<>> THEN SharpeRatio(Returns(equity_curve))
                                              ELSE Zero,
         max_drawdown |-> IF summaries # <<>>
                          THEN MinDrawdown(equity_curve, Len(equity_curve)) ELSE Zero,
         total_return |-> IF summaries # <<>> THEN TotalReturn(equity_curve) ELSE Zero,
         avg_trade_return |-> Rat(SumPnl(closed_trades, total_trades), total_trades),
         best_trade |-> Rat(MaxPnl(closed_trades, total_trades), 1),
         worst_trade |-> Rat(MinPnl(closed_trades, total_trades), 1),
         total_profit |-> Rat(total_profit, 1),
         total_loss |-> Rat(total_loss, 1) ]

\* _calculate_enhanced_metrics(df, results)
calculate_enhanced_metrics(results) ==
    IF results.trades = <<>>
    THEN EmptyMetrics
    ELSE IF SelectSeq(results.trades, HasPnl) = <<>>
    THEN [total_trades |-> Len(results.trades), win_rate |-> Zero]
    ELSE FullMetrics(SelectSeq(results.trades, HasPnl), results.daily_summaries)

(***************************************************************************)
(* EnhancedBacktester._simulate_trading                                    *)
(***************************************************************************)
NoResults == [trades |-> <<>>, daily_summaries |-> <<>>]

NoRow == [close |-> 0, date |-> 0, final_long |-> FALSE, final_short |-> FALSE]

NoUpdate ==
    [ id |-> 0, stop_hit |-> FALSE, target_hit |-> FALSE, max_bars_hit |-> FALSE,
      status |-> "none", reason |-> "none", before |-> "NONE", after |-> "NONE" ]

Ids(positions) == [i \in 1..Len(positions) |-> positions[i].id]

Count(b) == IF b THEN 1 ELSE 0

\* The day test turned around.
IsNewDaySame(date, row_date) == date = row_date

\* current_date != current_timestamp.date()
IsNewDay(date, row_date) == date # row_date

\* The summary taken after the reset instead of before it.
RolloverSummaryAfterReset(rm, date) ==
    [date |-> date] @@ PortfolioSummary(ResetDailyTracking(rm))

\* daily_summary = risk_manager.get_portfolio_summary(); daily_summary['date'] = current_date
RolloverSummary(rm, date) == [date |-> date] @@ PortfolioSummary(rm)

\* The update loop running over the live list.
IterListLive(copy, live) == live

\* for position in risk_manager.positions[:] : the loop runs over the copy
\* (both arguments are sequences of position ids).
IterList(copy, live) == copy

\* The ledger keeping only the final close of a position.
RecordsTradeFinalOnly(status) == status = "fully_closed"

\* if update_result['status'] in ['fully_closed', 'partially_closed']
RecordsTrade(status) == status \in {"fully_closed", "partially_closed"}

\* The record appended to the ledger for an opened position.
OpenRecord(p, timestamp) ==
    [ position_id |-> p.id,
      symbol |-> p.symbol,
      side |-> p.side,
      entry_price |-> p.entry_price,
      quantity |-> p.quantity,
      timestamp |-> timestamp,
      action |-> "open" ]

SimInit ==
    /\ pc = "next_row"
    /\ mult \in MultiplierConfigs
    /\ bar_idx = 0
    /\ row = NoRow
    /\ current_date = 0
    /\ \E risk_per_trade \in RiskPerTradeVals :
          /\ risk_manager = AdvancedRiskManager(risk_per_trade)
    /\ ts_regressed = FALSE
    /\ iter_copy = <<>>
    /\ iter_i = 1
    /\ trades = <<>>
    /\ daily_summaries = <<>>
    /\ bar_log = <<>>
    /\ book = <<>>
    /\ last_update = NoUpdate
    /\ day_realized = [d \in 1..MaxBarIdx |-> 0]
    /\ days_seen = {}
    /\ open_at_bar_start = <<>>
    /\ last_reset = [count |-> 0, before |-> NewRiskManager, after |-> NewRiskManager]
    /\ metrics_in = NoResults
    /\ metrics_out = <<>>

\* Lines 323-338: the next row; on a new day the prior
\* day's summary is taken and the daily tracking reset; then the update loop
\* starts on a copy of the open positions. The rows offered carry entry
\* signals for at most MaxPositions positions over the run.
FeedRow(steps) ==
    /\ pc = "next_row"
    /\ bar_idx < MaxBarIdx
    /\ \E close \in Prices, step \in steps, fl \in BOOLEAN, fs \in BOOLEAN :
        /\ (risk_manager.next_id - 1) + Count(fl) + Count(fs) <= MaxPositions
        /\ step < 0 => (bar_idx > 0 /\ row.date + step >= 1)
        /\ row' = [ close |-> close,
                    date |-> IF bar_idx = 0 THEN 1 ELSE row.date + step,
                    final_long |-> fl,
                    final_short |-> fs ]
    /\ bar_idx' = bar_idx + 1
    /\ open_at_bar_start' = Ids(risk_manager.positions)
    /\ days_seen' = days_seen \cup {row'.date}
    /\ IF IsNewDay(current_date, row'.date) /\ current_date # 0
       THEN /\ daily_summaries' = Append(daily_summaries,
                                         RolloverSummary(risk_manager, current_date))
            /\ risk_manager' = ResetDailyTracking(risk_manager)
            /\ bar_log' = <<[ev |-> "summary", id |-> 0], [ev |-> "reset", id |-> 0]>>
            /\ last_reset' = [count |-> last_reset.count + 1,
                              before |-> risk_manager,
                              after |-> risk_manager']
       ELSE /\ bar_log' = <<>>
            /\ UNCHANGED <<daily_summaries, risk_manager, last_reset>>
    /\ current_date' = row'.date
    /\ iter_copy' = Ids(risk_manager'.positions)
    /\ iter_i' = 1
    /\ pc' = "update"
    /\ ts_regressed' = (ts_regressed \/ (bar_idx > 0 /\ row'.date < row.date))
    /\ UNCHANGED <<sigvars, mult, trades, book, last_update, day_realized, metvars, sidevars>>

\* The rows of df in ascending order of timestamp: the next row is of the same
\* day or of the next.
NextRow ==
    /\ pc = "next_row"
    /\ FeedRow({0, 1})

\* A df that is not in ascending order: the next row is of the day before.
NextRowUnordered ==
    /\ pc = "next_row"
    /\ FeedRow({-1})

BookAfter(id, res) ==
    IF res.status = "fully_closed"
    THEN [book EXCEPT ![id].status = "CLOSED", ![id].remaining_quantity = 0]
    ELSE LET p == res.rm.positions[IndexOfId(res.rm.positions, id)]
         IN [book EXCEPT ![id].status = p.status,
                         ![id].remaining_quantity = p.remaining_quantity]

\* Lines 340-345: one iteration of the update loop.
UpdateNext ==
    /\ pc = "update"
    /\ iter_i <= Len(IterList(iter_copy, Ids(risk_manager.positions)))
    /\ \E id \in {IterList(iter_copy, Ids(risk_manager.positions))[iter_i]} :
       \E res \in {update_position(risk_manager, id, row.close)} :
       \E p \in {risk_manager.positions[IndexOfId(risk_manager.positions, id)]} :
          /\ risk_manager' = res.rm
          /\ trades' = IF RecordsTrade(res.status) THEN trades \o res.trade ELSE trades
          /\ bar_log' = Append(bar_log, [ev |-> "update", id |-> id])
          /\ book' = IF res.status = "not_found" THEN book ELSE BookAfter(id, res)
          /\ last_update' =
                [ id |-> id,
                  stop_hit |-> StopHit(p, row.close),
                  target_hit |-> TargetHit(p, row.close),
                  max_bars_hit |-> MaxBarsHit(p),
                  status |-> res.status,
                  reason |-> IF res.trade = <<>> THEN "none" ELSE res.trade[1].exit_reason,
                  before |-> book[id].status,
                  after |-> book'[id].status ]
          /\ day_realized' = [day_realized EXCEPT ![row.date] =
                                 @ + (IF res.trade = <<>> THEN 0 ELSE res.trade[1].pnl)]
    /\ iter_i' = iter_i + 1
    /\ UNCHANGED <<sigvars, pc, mult, bar_idx, row, current_date, iter_copy,
                   daily_summaries, days_seen, open_at_bar_start, last_reset,
                   ts_regressed, metvars, sidevars>>

\* The short entry written as the alternative of the long one (elif).
EntryCallExclusive(rm, signal, side, stop_loss_price) ==
    IF signal /\ ~(side = "sell" /\ row.final_long)
    THEN open_position(rm, side, row.close, stop_loss_price, mult)
    ELSE [rm |-> rm, position |-> <<>>]

\* One entry of lines 350-392: open_position is called when the signal of the
\* side is set; without a call the manager is as before and there is no position.
EntryCall(rm, signal, side, stop_loss_price) ==
    IF signal
    THEN open_position(rm, side, row.close, stop_loss_price, mult)
    ELSE [rm |-> rm, position |-> <<>>]

\* An 'open' record appended whatever open_position returned.
EntryRecordsUnguarded(res) ==
    <<[ position_id |-> IF res.position = <<>> THEN 0 ELSE res.position[1].id,
        symbol |-> "SYMBOL",
        side |-> "none",
        entry_price |-> row.close,
        quantity |-> 0,
        timestamp |-> bar_idx,
        action |-> "open" ]>>

\* if position: trades.append({... 'action': 'open'})
EntryRecords(res) ==
    IF res.position = <<>> THEN <<>> ELSE <<OpenRecord(res.position[1], bar_idx)>>

EntryEvents(signal, res) ==
    IF signal
    THEN <<[ev |-> "open_position",
            id |-> IF res.position = <<>> THEN 0 ELSE res.position[1].id]>>
    ELSE <<>>

EntryBook(res) ==
    IF res.position = <<>> THEN <<>>
    ELSE <<[ status |-> "OPEN",
             original_quantity |-> res.position[1].quantity,
             remaining_quantity |-> res.position[1].quantity ]>>

\* Lines 347-392: after the update loop, unless the breaker is triggered, the
\* long entry (stop 2% below the close) and then the short entry (stop 2% above).
Entries ==
    /\ pc = "update"
    /\ iter_i > Len(IterList(iter_copy, Ids(risk_manager.positions)))
    /\ IF ~is_daily_breaker_triggered(risk_manager)
       THEN \E long \in {EntryCall(risk_manager, row.final_long, "buy",
                                   row.close * LongStopPct)} :
            \E short \in {EntryCall(long.rm, row.final_short, "sell",
                                    row.close * ShortStopPct)} :
               /\ risk_manager' = short.rm
               /\ trades' = trades \o EntryRecords(long) \o EntryRecords(short)
               /\ bar_log' = bar_log \o EntryEvents(row.final_long, long)
                                     \o EntryEvents(row.final_short, short)
               /\ book' = book \o EntryBook(long) \o EntryBook(short)
       ELSE UNCHANGED <<risk_manager, trades, bar_log, book>>
    /\ pc' = "next_row"
    /\ UNCHANGED <<sigvars, mult, bar_idx, row, current_date, iter_copy, iter_i,
                   daily_summaries, last_update, day_realized, days_seen,
                   open_at_bar_start, last_reset, ts_regressed, metvars, sidevars>>

\* Lines 394-398 and 400-404: the rows are exhausted; the final daily summary
\* is taken and the results returned. with_metrics: the caller,
\* run_enhanced_backtest, computes the metrics of the results (line 287).
FinishRows(with_metrics) ==
    /\ pc = "next_row"
    /\ daily_summaries' =
          IF current_date # 0
          THEN Append(daily_summaries, RolloverSummary(risk_manager, current_date))
          ELSE daily_summaries
    /\ pc' = "done"
    /\ IF with_metrics
       THEN \E results \in {[trades |-> trades, daily_summaries |-> daily_summaries']} :
               /\ metrics_in' = results
               /\ metrics_out' = <<calculate_enhanced_metrics(results)>>
       ELSE UNCHANGED metvars
    /\ UNCHANGED <<sigvars, mult, bar_idx, row, current_date, risk_manager, iter_copy, iter_i,
                   trades, bar_log, book, last_update, day_realized, days_seen,
                   open_at_bar_start, last_reset, ts_regressed, sidevars>>

\* _simulate_trading returns.
Finish ==
    /\ pc = "next_row"
    /\ FinishRows(FALSE)

\* _simulate_trading returns to run_enhanced_backtest, which computes the metrics.
\* run_enhanced_backtest reaches the simulator only with a frame of at least one
\* row (lines 255-256).
FinishBacktest ==
    /\ pc = "next_row"
    /\ bar_idx > 0
    /\ FinishRows(TRUE)

\* Lines 255-256: no data was fetched (the frame is empty, or the fetch itself
\* raised, lines 116-117); run_enhanced_backtest raises ValueError before the
\* simulator and the metrics, and returns nothing.
RaiseNoData ==
    /\ pc = "next_row"
    /\ bar_idx = 0
    /\ pc' = "raised"
    /\ UNCHANGED <<sigvars, mult, bar_idx, row, current_date, risk_manager, iter_copy, iter_i,
                   trades, daily_summaries, obsvars, metvars, sidevars>>

SimIdle ==
    /\ pc = "next_row"
    /\ mult = [tp1 |-> 3, tp2 |-> 4, runner |-> 6]
    /\ bar_idx = 0
    /\ row = NoRow
    /\ current_date = 0
    /\ risk_manager = NewRiskManager
    /\ iter_copy = <<>>
    /\ iter_i = 1
    /\ trades = <<>>
    /\ daily_summaries = <<>>
    /\ bar_log = <<>>
    /\ book = <<>>
    /\ last_update = NoUpdate
    /\ day_realized = [d \in 1..MaxBarIdx |-> 0]
    /\ days_seen = {}
    /\ open_at_bar_start = <<>>
    /\ last_reset = [count |-> 0, before |-> NewRiskManager, after |-> NewRiskManager]
    /\ ts_regressed = FALSE

MetricsIdle ==
    /\ metrics_in = NoResults
    /\ metrics_out = <<>>

\* The records one calendar day adds to the ledger: none, an entry, or one
\* close with a pnl in PnlVals.
SampleOpen ==
    [ position_id |-> 1, symbol |-> "SYMBOL", side |-> "buy", entry_price |-> 100,
      quantity |-> 10000, timestamp |-> 1, action |-> "open" ]

SampleClose(pnl) ==
    [ position_id |-> 1, symbol |-> "SYMBOL", side |-> "buy", entry_price |-> 100,
      exit_price |-> 100, quantity |-> 10000, pnl |-> pnl, exit_reason |-> "max_bars",
      action |-> "close" ]

DayTradeOptions == {<<>>, <<SampleOpen>>} \cup {<<SampleClose(pnl)>> : pnl \in PnlVals}

RECURSIVE DayLedger(_, _)
\* The ledger of the days 1..d.
DayLedger(days, d) == IF d = 0 THEN <<>> ELSE DayLedger(days, d - 1) \o days[d]

\* The daily summary of day d: capital moves by the pnl of the closes only.
DaySummary(days, d) ==
    LET before == SelectSeq(DayLedger(days, d - 1), HasPnl)
        today == SelectSeq(days[d], HasPnl)
    IN [ date |-> d,
         starting_capital |-> InitialCapital + SumPnl(before, Len(before)),
         current_capital |-> InitialCapital + SumPnl(before, Len(before))
                                            + SumPnl(today, Len(today)),
         realized_daily_pnl |-> SumPnl(today, Len(today)),
         breaker_triggered |-> FALSE,
         open_positions |-> 0 ]

\* The results _simulate_trading returns for a run over the given days.
ResultsOf(days) ==
    [ trades |-> DayLedger(days, Len(days)),
      daily_summaries |-> [d \in 1..Len(days) |-> DaySummary(days, d)] ]

MetricsInit ==
    /\ metrics_in \in {ResultsOf(days) :
                           days \in UNION {[1..k -> DayTradeOptions] : k \in 1..MaxDays}}
    /\ metrics_out = <<>>

\* metrics = self._calculate_enhanced_metrics(df, results)
CalculateMetrics ==
    /\ metrics_out = <<>>
    /\ metrics_out' = <<calculate_enhanced_metrics(metrics_in)>>
    /\ UNCHANGED <<sigvars, simvars, obsvars, metrics_in, sidevars>>

(***************************************************************************)
(* The dashboard script (app.py): every user action and every automatic    *)
(* refresh runs the script from top to bottom on st.session_state.         *)
(* Prices and cash are in whole currency units, quantities in whole units. *)
(***************************************************************************)
\* st.session_state after the first run of the script (lines 379-380, 431-432,
\* 412, 828-839).
NewSession ==
    [ is_trading |-> FALSE,
      paper_mode |-> TRUE,
      account_validation |-> "none",
      position |-> <<>>,
      trades |-> <<>>,
      account |-> [cash |-> LiveInitialCash, equity |-> <<LiveInitialCash>>],
      real_orders |-> FALSE,
      backtest_trigger |-> FALSE ]

\* What is recorded of a script run: whether the start button was pressed, the
\* mode, the live block ("none": the run ended before its place, "skipped",
\* "ran") and what it did, and the price of the bar when a position was open.
NoRun ==
    [ start_pressed |-> FALSE, block |-> "none", paper |-> TRUE, price |-> 0,
      exit_checked |-> FALSE, exited |-> FALSE, entered |-> FALSE, raised |-> FALSE,
      equity_appended |-> FALSE, backtest_ran |-> FALSE ]

\* Lines 411-414: the backtest button sets the trigger.
BacktestButton(ss, event) ==
    [ss EXCEPT !.backtest_trigger = @ \/ event = "run_backtest"]

\* Lines 424-431: what the trading-mode radio shows in a run.
PaperOfRun(paper, event) == IF event = "switch_mode" THEN ~paper ELSE paper

\* Lines 411-432: the backtest button sets the trigger; paper_mode is what the
\* trading-mode radio shows (paper).
Sidebar(ss, event, paper) ==
    [BacktestButton(ss, event) EXCEPT !.paper_mode = paper]

\* Lines 402 and 459-461: the keys are read from the environment in every run,
\* for the exchange selected; keys: the exchange selected before the run has them.
KeysOfRun(keys, event) == IF event = "switch_exchange" THEN ~keys ELSE keys

\* Lines 842-850: the validation button exists in real mode with API keys.
ValidateShown(ss, keys) == ~ss.paper_mode /\ keys

\* Lines 846-874: answer is what validate_account() returns ("valid",
\* "invalid"), or "raised" when it raises (the except branch at 865 only reports).
ValidateAccountAccess(ss, keys, event, answer) ==
    IF ValidateShown(ss, keys) /\ event = "validate" /\ answer # "raised"
    THEN [ss EXCEPT !.account_validation = answer]
    ELSE ss

\* Lines 893-908: "Fetch Real Account Data"; answer is "orders" when
\* get_account_info() returns data listing open orders, "no_orders" when it
\* returns data without, "raised" when it raises.
FetchAccountData(ss, keys, event, answer) ==
    IF ValidateShown(ss, keys) /\ event = "fetch_account_data" /\ answer # "raised"
    THEN [ss EXCEPT !.real_orders = answer = "orders"]
    ELSE ss

\* Lines 1022-1028: real_trading_ready.
RealTradingReady(ss, keys) ==
    IF ~ss.paper_mode
    THEN IF ~keys THEN FALSE
         ELSE IF ss.account_validation = "invalid" THEN FALSE
         ELSE TRUE
    ELSE TRUE

\* disabled=st.session_state['is_trading'] or not real_trading_ready
StartEnabled(ss, keys) == ~(ss.is_trading \/ ~RealTradingReady(ss, keys))

\* disabled=not st.session_state['is_trading']
StopEnabled(ss) == ss.is_trading

\* Lines 1030-1043: the start button.
StartPressed(ss, keys) ==
    IF ss.paper_mode
    THEN [ss EXCEPT !.is_trading = TRUE]
    ELSE IF keys /\ ss.account_validation = "valid"
         THEN [ss EXCEPT !.is_trading = TRUE]
         ELSE ss

\* Lines 1030-1057: the start and the stop button.
StartStop(ss, keys, event) ==
    IF event = "start" /\ StartEnabled(ss, keys) THEN StartPressed(ss, keys)
    ELSE IF event = "stop" /\ StopEnabled(ss) THEN [ss EXCEPT !.is_trading = FALSE]
    ELSE ss

\* Line 2134: the open orders, each with a cancel and a refresh button, are
\* listed in real mode when the account data fetched holds orders.
OrderManagementShown(ss) == ~ss.paper_mode /\ ss.real_orders

\* Line 2217: the manual order form of the order tab exists in real mode with a
\* valid account validation.
ManualOrderShown(ss) == ~ss.paper_mode /\ ss.account_validation = "valid"

\* Lines 2164-2186 and 2229-2239: a button of the order tab; when the exchange
\* call succeeds, the account data is fetched again and stored.
OrderTab(ss, event, answer) ==
    IF \/ event = "order_action" /\ OrderManagementShown(ss)
       \/ event = "manual_order" /\ ManualOrderShown(ss)
    THEN [ss EXCEPT !.real_orders = answer = "orders"]
    ELSE ss

\* latest_price <= stop_price, with stop_price = entry_price * (1 - stop_loss_pct)
LiveStopReached(pos, price) == price * 100 <= pos.entry_price * (100 - LiveStopLossPct)

\* latest_price >= tp_price, with tp_price = entry_price * (1 + take_profit_pct)
LiveTargetReached(pos, price) == price * 100 >= pos.entry_price * (100 + LiveTakeProfitPct)

\* Lines 1693-1699: should_exit.
ShouldExit(pos, mk) ==
    \/ LiveStopReached(pos, mk.latest_price)
    \/ LiveTargetReached(pos, mk.latest_price)
    \/ mk.wt_cross_down_now
    \/ mk.latest_idx - pos.entry_idx >= LiveMaxBarsInTrade

\* The fields the exit writes into a trade record (dict.update).
ExitFields(pos, mk) ==
    [ exit_idx |-> mk.latest_idx,
      exit_price |-> mk.latest_price,
      pnl |-> (mk.latest_price - pos.entry_price) * pos.qty ]

\* Lines 1686-1722: the exit logic; order_failed: place_market_order raises.
ExitLogic(ss, mk, order_failed) ==
    IF ss.position # <<>> /\ ShouldExit(ss.position[1], mk)
    THEN IF order_failed
         THEN [ss |-> ss, exited |-> FALSE, raised |-> TRUE]
         ELSE LET pos == ss.position[1]
                  fields == ExitFields(pos, mk)
              IN [ ss |-> [ss EXCEPT !.account.cash = @ + fields.pnl,
                                      !.trades = IF @ # <<>>
                                                 THEN [@ EXCEPT ![Len(@)] = fields @@ @]
                                                 ELSE @,
                                      !.position = <<>>],
                   exited |-> TRUE, raised |-> FALSE ]
    ELSE [ss |-> ss, exited |-> FALSE, raised |-> FALSE]

\* The entry made whether or not a position is open.
EntryAllowedAlways(ss, mk) == mk.signal_now /\ mk.latest_price > 0

\* if st.session_state['position'] is None and signal_now and not pd.isna(latest_price)
\* and latest_price > 0
EntryAllowed(ss, mk) == ss.position = <<>> /\ mk.signal_now /\ mk.latest_price > 0

\* The record appended to the trades at an entry (lines 1749-1755, 1780-1785).
EntryRecord(mk, qty) ==
    [ entry_idx |-> mk.latest_idx, entry_price |-> mk.latest_price, qty |-> qty,
      strategy |-> "strategy" ]

\* Lines 1725-1796: the entry logic; confirmed: the strategy's own conditions
\* hold on the bar (lines 1732-1735); qty: what position_size_from_risk returns.
EntryLogic(ss, mk, confirmed, qty, order_failed) ==
    IF EntryAllowed(ss, mk) /\ confirmed /\ qty > 0
    THEN IF order_failed
         THEN [ss |-> ss, entered |-> FALSE, raised |-> TRUE]
         ELSE [ ss |-> [ss EXCEPT !.position = <<[ entry_price |-> mk.latest_price,
                                                   qty |-> qty,
                                                   entry_idx |-> mk.latest_idx ]>>,
                                   !.trades = Append(@, EntryRecord(mk, qty))],
                entered |-> TRUE, raised |-> FALSE ]
    ELSE [ss |-> ss, entered |-> FALSE, raised |-> FALSE]

\* Lines 1798-1805: the equity point of the run.
EquityTracking(ss, mk) ==
    LET unreal == IF ss.position # <<>>
                  THEN (mk.latest_price - ss.position[1].entry_price) * ss.position[1].qty
                  ELSE 0
    IN [ss EXCEPT !.account.equity = Append(@, ss.account.cash + unreal)]

\* Lines 1811-1813: except Exception: st.error(...), then
\* st.session_state['is_trading'] = False. cut: the run is ended at st.error
\* (line 1812), before the assignment.
OnTradingError(ss, cut) == IF cut THEN ss ELSE [ss EXCEPT !.is_trading = FALSE]

\* The live block entered whatever signal_now is.
LiveBlockReachedAlways(ss, mk) == ss.is_trading

\* Lines 1672 and 1676: the live block is nested in `if signal_now:`.
LiveBlockReached(ss, mk) == mk.signal_now /\ ss.is_trading

\* Lines 1672-1813: the live trading block. ext: what the calls out of the
\* script give in this run; cut: the run is ended at the st.error of the
\* handler when the handler is reached.
LiveBlock(ss, mk, ext, cut) ==
    LET none == [ ss |-> ss, block |-> "skipped", exit_checked |-> FALSE, exited |-> FALSE,
                  entered |-> FALSE, raised |-> FALSE, equity_appended |-> FALSE ]
    IN IF ~LiveBlockReached(ss, mk) THEN none
       ELSE LET x == ExitLogic(ss, mk, ext.order_failed = "exit")
            IN IF x.raised
               THEN [none EXCEPT !.ss = OnTradingError(x.ss, cut), !.block = "ran",
                                 !.exit_checked = ss.position # <<>>, !.raised = TRUE]
               ELSE LET e == EntryLogic(x.ss, mk, ext.confirmed, ext.qty,
                                        ext.order_failed = "entry")
                    IN IF e.raised
                       THEN [none EXCEPT !.ss = OnTradingError(e.ss, cut), !.block = "ran",
                                         !.exit_checked = ss.position # <<>>,
                                         !.exited = x.exited, !.raised = TRUE]
                       ELSE [none EXCEPT !.ss = EquityTracking(e.ss, mk), !.block = "ran",
                                         !.exit_checked = ss.position # <<>>,
                                         !.exited = x.exited, !.entered = e.entered,
                                         !.equity_appended = TRUE]

\* Lines 2254-2297: the backtest run on demand; bt is its result, <<>> when it
\* raised or there was no data. Line 2292: the equity of the result's 'df'
\* replaces the account's equity, which is kept when the result has none.
BacktestHandler(ss, bt) ==
    IF ss.backtest_trigger
    THEN IF bt = <<>>
         THEN [ss EXCEPT !.backtest_trigger = FALSE]
         ELSE [ss EXCEPT !.backtest_trigger = FALSE,
                         !.trades = bt[1].trades,
                         !.account.equity = IF bt[1].has_equity THEN bt[1].equity ELSE @]
    ELSE ss

\* The latest bars the data source may give in a script run (lines 1127,
\* 1662-1667): the frame is fetched anew in every run. A value that no statement
\* of the run reads is drawn once: index and price when no position is open and
\* the live block is not entered, the cross-down when the exit logic does not
\* get to it (line 1696: no position, block not entered, stop or target reached).
Bars(ss) ==
    { mk \in [ latest_idx : LiveLatestIdxVals, latest_price : LivePrices,
               signal_now : BOOLEAN, wt_cross_down_now : BOOLEAN ] :
         /\ mk.wt_cross_down_now =>
                /\ ss.position # <<>>
                /\ LiveBlockReached(ss, mk)
                /\ ~LiveStopReached(ss.position[1], mk.latest_price)
                /\ ~LiveTargetReached(ss.position[1], mk.latest_price)
         /\ (ss.position = <<>> /\ ~LiveBlockReached(ss, mk)) =>
                (mk.latest_price = 100 /\ mk.latest_idx = 1)
         /\ (ss.position # <<>> /\ ~LiveBlockReached(ss, mk)) => mk.latest_idx = 1 }

\* What the calls out of the live block may give in a script run: whether the
\* strategy's own conditions hold (confirmed), the quantity of
\* position_size_from_risk, and the place_market_order call that raises. Only
\* the calls the run makes are drawn.
Externals(ss, mk) ==
    IF ~LiveBlockReached(ss, mk)
    THEN {[confirmed |-> FALSE, qty |-> 0, order_failed |-> "none"]}
    ELSE LET x == ExitLogic(ss, mk, FALSE)
             exits == x.exited
             asks == EntryAllowed(x.ss, mk)
         IN  { ext \in [ confirmed : BOOLEAN, qty : LiveQtyVals,
                         order_failed : {"none", "exit", "entry"} ] :
                 /\ ext.order_failed = "exit" =>
                        exits /\ ~ext.confirmed /\ ext.qty = 0
                 /\ ext.order_failed = "entry" =>
                        asks /\ ext.confirmed /\ ext.qty > 0
                 /\ ~asks => ~ext.confirmed /\ ext.qty = 0
                 /\ ~ext.confirmed => ext.qty = 0 }

\* What the backtest run on demand may give: a result, or nothing (it raised).
BacktestOutcomes(ss) ==
    IF ss.backtest_trigger THEN {<<>>} \cup {<<r>> : r \in BacktestResults} ELSE {<<>>}

\* How far a script run gets. The script ends itself at "early_rerun"
\* (st.rerun() at line 569), "no_data" (st.stop() at lines 1240/1245) and
\* "order_rerun" (st.rerun() at lines 2173, 2186, 2239, after a call of the
\* order tab that succeeded: the run ends after the live block and before the
\* backtest handler), or is "complete". Streamlit ends a running script at an
\* st.* call when a widget event is pending, with a control exception that
\* `except Exception` does not catch (as the st.rerun() of line 2173, inside
\* try/except Exception): "cut_top" (an st.* call before line 411),
\* "cut_sidebar" (lines 417-424, between the backtest trigger and paper_mode),
\* "cut_on_error" (st.error at line 1812, in the handler of the live block,
\* before is_trading = False) and "cut_after_block" (line 1816 and after, before
\* the order tab and the backtest handler). A run ended at an st.* call
\* between lines 432 and 1022 is as one of "early_rerun", between the button
\* handlers and the live block as one of "no_data", at the st.spinner of the
\* backtest handler (line 2256) as a complete one whose backtest stores nothing.
Stages(event, answer) ==
    {"cut_top", "cut_sidebar", "early_rerun", "no_data", "cut_on_error", "cut_after_block"}
    \cup (IF event \in {"order_action", "manual_order"} /\ answer # "raised"
          THEN {"order_rerun"} ELSE {"complete"})

\* The session state at the end of a run that got past the live block: lb is
\* what the live block gave, bt the backtest's result.
AfterBlock(stage, lb, event, answer, bt) ==
    IF stage = "complete" THEN BacktestHandler(lb.ss, bt)
    ELSE IF stage = "order_rerun" THEN OrderTab(lb.ss, event, answer)
    ELSE lb.ss

\* A run ended at line 1816 leaves what a complete run leaves, unless the
\* backtest handler or a button of the order tab had something to do.
CutAfterBlockDiffers(ss, event) ==
    ss.backtest_trigger \/ event \in {"order_action", "manual_order"}

\* The stages at which a run ends before the place of the live block.
BeforeBlock == {"cut_top", "cut_sidebar", "early_rerun", "no_data"}

\* One run of the script for a user action (event) or an automatic refresh;
\* answer: what the exchange call made for the action gives.
ScriptRun(event, answer) ==
    /\ runs < MaxReruns
    /\ \E keys \in {KeysOfRun(api_keys, event)} :
       \E paper \in {PaperOfRun(paper_radio, event)} :
       \E s1 \in {Sidebar(session_state, event, paper)} :
       \E s2 \in {StartStop(FetchAccountData(ValidateAccountAccess(s1, keys, event, answer),
                                             keys, event, answer),
                            keys, event)} :
          /\ api_keys' = keys
          /\ paper_radio' = paper
          /\ \/ \E stage \in Stages(event, answer) \cap BeforeBlock :
                \E end \in {IF stage = "cut_top" THEN session_state
                            ELSE IF stage = "cut_sidebar"
                                 THEN BacktestButton(session_state, event)
                            ELSE IF stage = "early_rerun" THEN s1
                            ELSE s2} :
                   /\ session_state' = end
                   /\ last_run' = [NoRun EXCEPT !.start_pressed = event = "start",
                                                !.paper = end.paper_mode]
             \/ \E mk \in Bars(s2) :
                \E ext \in Externals(s2, mk) :
                \E stage \in Stages(event, answer) \ BeforeBlock :
                \E lb \in {LiveBlock(s2, mk, ext, stage = "cut_on_error")} :
                   /\ stage = "cut_on_error" => lb.raised
                   /\ stage = "cut_after_block" => CutAfterBlockDiffers(lb.ss, event)
                   /\ \E bt \in IF stage = "complete"
                                THEN BacktestOutcomes(lb.ss) ELSE {<<>>} :
                      /\ session_state' = AfterBlock(stage, lb, event, answer, bt)
                      /\ last_run' = [ start_pressed |-> event = "start",
                                       block |-> lb.block,
                                       paper |-> s2.paper_mode,
                                       price |-> IF s2.position # <<>>
                                                 THEN mk.latest_price ELSE 0,
                                       exit_checked |-> lb.exit_checked,
                                       exited |-> lb.exited,
                                       entered |-> lb.entered,
                                       raised |-> lb.raised,
                                       equity_appended |-> lb.equity_appended,
                                       backtest_ran |-> /\ stage = "complete"
                                                        /\ lb.ss.backtest_trigger
                                                        /\ bt # <<>> ]
    /\ runs' = runs + 1
    /\ UNCHANGED <<sigvars, simvars, obsvars, metvars, ctlvars, indvars>>

\* The script runs again without a dashboard action of the ones below: the
\* automatic refresh (lines 2494-2496, 567-569) or another widget.
Rerun ==
    /\ runs < MaxReruns
    /\ ScriptRun("none", "raised")

\* The trading-mode radio is switched.
SwitchTradingMode ==
    /\ runs < MaxReruns
    /\ ScriptRun("switch_mode", "raised")

\* Another exchange is selected: one whose keys are in the environment when those
\* of the exchange selected before are not, and the other way round.
SwitchExchange ==
    /\ runs < MaxReruns
    /\ ScriptRun("switch_exchange", "raised")

\* "Validate Account Access" is pressed; validate_account() finds the account
\* valid or not, or raises.
ValidateAccount ==
    /\ ValidateShown(session_state, api_keys)
    /\ \E answer \in {"valid", "invalid", "raised"} : ScriptRun("validate", answer)

\* "Fetch Real Account Data" is pressed.
FetchRealAccountData ==
    /\ ValidateShown(session_state, api_keys)
    /\ \E answer \in {"orders", "no_orders", "raised"} : ScriptRun("fetch_account_data", answer)

\* "Start Paper Trading" / "Start REAL Trading" is pressed.
StartTrading ==
    /\ StartEnabled(session_state, api_keys)
    /\ ScriptRun("start", "raised")

\* "Stop Trading" / "EMERGENCY STOP" is pressed.
StopTrading ==
    /\ StopEnabled(session_state)
    /\ ScriptRun("stop", "raised")

\* "Run Backtest" is pressed.
RunBacktest ==
    /\ runs < MaxReruns
    /\ ScriptRun("run_backtest", "raised")

\* "Cancel" or "Refresh" of an open order is pressed in the order tab; the
\* exchange call fails ("raised") or the account data fetched after it lists
\* open orders or none.
OrderAction ==
    /\ OrderManagementShown(session_state)
    /\ \E answer \in {"orders", "no_orders", "raised"} : ScriptRun("order_action", answer)

\* "Place Manual Order" is pressed in the order tab.
PlaceManualOrder ==
    /\ ManualOrderShown(session_state)
    /\ \E answer \in {"orders", "no_orders", "raised"} : ScriptRun("manual_order", answer)

\* No dashboard session.
LiveIdle ==
    /\ session_state = <<>>
    /\ api_keys = FALSE
    /\ paper_radio = TRUE
    /\ last_run = <<>>
    /\ runs = 0

LiveInit ==
    /\ session_state = NewSession
    /\ api_keys \in BOOLEAN
    /\ paper_radio = TRUE
    /\ last_run = NoRun
    /\ runs = 0

CancelIdle == cancel_requested = FALSE

\* No indicator call.
IndicatorIdle ==
    /\ wt_call = <<>>
    /\ strength_call = <<>>

SideIdle == CancelIdle /\ IndicatorIdle /\ LiveIdle

\* The simulator run.
Init == SignalInit /\ SimInit /\ SideIdle

Next == NextRow \/ UpdateNext \/ Entries \/ Finish

Spec == Init /\ [][Next]_vars

\* The signal generator on its own.
InitSignal == SignalInit /\ SimIdle /\ MetricsIdle /\ SideIdle

NextSignal == Construct \/ GenerateWeightedSignal

SpecSignal == InitSignal /\ [][NextSignal]_vars

\* The metrics stage on its own.
InitMetrics == SignalInit /\ SimIdle /\ MetricsInit /\ SideIdle

NextMetrics == CalculateMetrics

SpecMetrics == InitMetrics /\ [][NextMetrics]_vars

\* run_enhanced_backtest: the simulator run and the metrics of its results.
NextBacktest == NextRow \/ UpdateNext \/ Entries \/ FinishBacktest \/ RaiseNoData

SpecBacktest == Init /\ [][NextBacktest]_vars

\* The caller of a batch run asks for it to stop; _simulate_trading has no
\* parameter and reads no state through which the request could reach it.
RequestCancel ==
    /\ pc # "done"
    /\ ~cancel_requested
    /\ cancel_requested' = TRUE
    /\ UNCHANGED <<sigvars, simvars, obsvars, metvars, indvars, livevars>>

\* The WaveTrend sub-signal and the strength label on their own.
InitIndicator == SignalInit /\ SimIdle /\ MetricsIdle /\ CancelIdle /\ IndicatorInit /\ LiveIdle

NextIndicator == GenerateWavetrendSignal \/ GetSignalStrength

SpecIndicator == InitIndicator /\ [][NextIndicator]_vars

\* The dashboard: any sequence of user actions and refreshes.
InitLive == SignalInit /\ SimIdle /\ MetricsIdle /\ CancelIdle /\ IndicatorIdle /\ LiveInit

NextLive ==
    \/ Rerun \/ SwitchTradingMode \/ SwitchExchange \/ ValidateAccount
    \/ FetchRealAccountData \/ StartTrading \/ StopTrading \/ RunBacktest
    \/ OrderAction \/ PlaceManualOrder

SpecLive == InitLive /\ [][NextLive]_vars

\* The simulator run with a caller that may ask for cancellation at any time.
NextCancel == NextRow \/ UpdateNext \/ Entries \/ Finish \/ RequestCancel

SpecCancel == Init /\ [][NextCancel]_vars

\* run_enhanced_backtest given rows in any order.
NextUnordered ==
    NextRow \/ NextRowUnordered \/ UpdateNext \/ Entries \/ FinishBacktest \/ RaiseNoData

SpecUnordered == Init /\ [][NextUnordered]_vars

(***************************************************************************)
(* Derived views used by the properties.                                   *)
(***************************************************************************)
RECURSIVE SumReleased(_, _, _)
\* Sum of the quantities of the close records of position id among the first
\* n records of a ledger.
SumReleased(ledger, n, id) ==
    IF n = 0 THEN 0
    ELSE SumReleased(ledger, n - 1, id)
         + (IF ledger[n].action = "close" /\ ledger[n].position_id = id
            THEN ledger[n].quantity ELSE 0)

CountCloses(ledger, id) ==
    Cardinality({i \in 1..Len(ledger) :
                    ledger[i].action = "close" /\ ledger[i].position_id = id})

\* original_quantity of position id: the quantity of its 'open' record.
OriginalQuantity(id) ==
    LET i == CHOOSE i \in 1..Len(trades) :
                trades[i].action = "open" /\ trades[i].position_id = id
    IN trades[i].quantity

\* remaining_quantity of position id: 0 once it left the open positions.
RemainingQuantity(id) ==
    LET i == IndexOfId(risk_manager.positions, id)
    IN IF i = 0 THEN 0 ELSE risk_manager.positions[i].remaining_quantity

OpenedIds == 1..(risk_manager.next_id - 1)

IsUpdateEvent(e) == e.ev = "update"

IsOpenEvent(e) == e.ev = "open_position"

EventIds(log) == [i \in 1..Len(log) |-> log[i].id]

UpdatedIds == EventIds(SelectSeq(bar_log, IsUpdateEvent))

OpenedThisBar == {bar_log[i].id : i \in {j \in 1..Len(bar_log) : IsOpenEvent(bar_log[j])}} \ {0}

RECURSIVE SumDays(_)
\* pnl realized by the exits of the days 1..d.
SumDays(d) == IF d = 0 THEN 0 ELSE day_realized[d] + SumDays(d - 1)

\* realized_daily_pnl is at or below -(daily_loss_limit * starting capital of the day).
LossLimitReached(rm) ==
    rm.realized_daily_pnl * 10000
        <= -(DailyLossLimitBps * (rm.current_capital - rm.realized_daily_pnl))

StatusRank(status) ==
    IF status = "OPEN" THEN 1
    ELSE IF status = "PARTIALLY_CLOSED" THEN 2
    ELSE IF status = "CLOSED" THEN 3
    ELSE 0

RECURSIVE SumUnrealized(_, _, _)
\* Unrealized pnl of the first n open positions at a price.
SumUnrealized(positions, n, price) ==
    IF n = 0 THEN 0
    ELSE RealizedPnl(positions[n], price, positions[n].remaining_quantity)
         + SumUnrealized(positions, n - 1, price)

\* The stop the simulator gives an entry at a price (lines 351 and 373), in cents.
EntryStopPrice(side, price) ==
    IF side = "buy" THEN price * LongStopPct ELSE price * ShortStopPct

\* An open_position call that returned a position.
IsOpened(e) == e.ev = "open_position" /\ e.id # 0

\* total_return measured from the initial capital of the run.
TotalReturnFromInitial(curve) == Rat(Last(curve) - InitialCapital, InitialCapital)

\* The highest of the first n points of a curve.
PeakAt(curve, n) ==
    CHOOSE x \in {curve[j] : j \in 1..n} : \A y \in {curve[j] : j \in 1..n} : x >= y

\* The closed trades of the ledger given to the metrics stage.
ClosedIn(ledger) == {i \in 1..Len(ledger) : "pnl" \in DOMAIN ledger[i]}

RECURSIVE SumOver(_, _, _)
\* Sum of the pnl of the records at the indices in idx, among the first n.
SumOver(ledger, idx, n) ==
    IF n = 0 THEN 0
    ELSE SumOver(ledger, idx, n - 1) + (IF n \in idx THEN ledger[n].pnl ELSE 0)

\* The sell label of a buy label and the buy label of a sell label.
MirrorLabel(label) ==
    CASE label = "Very Strong Buy" -> "Very Strong Sell"
      [] label = "Strong Buy" -> "Strong Sell"
      [] label = "Weak Buy" -> "Weak Sell"
      [] label = "Very Strong Sell" -> "Very Strong Buy"
      [] label = "Strong Sell" -> "Strong Buy"
      [] label = "Weak Sell" -> "Weak Buy"
      [] OTHER -> "Neutral"

\* -x on floats.
Neg(x) == IF x = NaN THEN NaN ELSE -x

\* equity_curve = [ds['current_capital'] for ds in daily_summaries]
EquityCurve == [i \in 1..Len(daily_summaries) |-> daily_summaries[i].current_capital]

(***************************************************************************)
(* Properties                                                              *)
(***************************************************************************)

\* C1: in every bundle generate_weighted_signal returns, for every accepted
\* weight configuration and every combination of sub-signal values (NaN
\* included), final_long and final_short are never both true.
C1_NeverLongAndShort ==
    \A i \in 1..Len(signal_out) : ~(signal_out[i].final_long /\ signal_out[i].final_short)

C1_Witness ==
    /\ signal_out # <<>>
    /\ signal_out[1].final_short
    /\ signal_out[1].weighted_signal < ShortThreshold
    /\ rsi_weight < 0

\* C2: a generator exists only for weights that sum to 1.0 within 1e-3, every
\* other sum ends the construction with ValueError before any bar is
\* processed, and the stored weights are the arguments as given.
C2_WeightsValidatedNotNormalized ==
    LET total == ctor_args[1] + ctor_args[2] + ctor_args[3]
    IN /\ gen_status = "constructed" =>
            /\ total >= WeightOne - WeightTolerance
            /\ total <= WeightOne + WeightTolerance
            /\ <<rsi_weight, wavetrend_weight, buy_sell_weight>> = ctor_args
       /\ gen_status = "ValueError" =>
            (total < WeightOne - WeightTolerance \/ total > WeightOne + WeightTolerance)
       /\ gen_status # "constructed" => signal_out = <<>>

C2_Witness ==
    /\ gen_status = "ValueError"
    /\ ctor_args[1] + ctor_args[2] + ctor_args[3] = WeightOne + 16
    /\ signal_out = <<>>

\* C3: for every position ever opened, at every step of the run,
\* remaining_quantity plus the quantities of its close records in the ledger
\* equals its original_quantity.
C3_QuantityConserved ==
    \A id \in OpenedIds :
        RemainingQuantity(id) + SumReleased(trades, Len(trades), id) = OriginalQuantity(id)

C3_Witness ==
    \E id \in OpenedIds :
        /\ IndexOfId(risk_manager.positions, id) = 0
        /\ CountCloses(trades, id) = 3
        /\ \E i \in 1..Len(trades) :
              /\ trades[i].action = "close"
              /\ trades[i].position_id = id
              /\ trades[i].exit_reason = "runner"

\* C4: the breaker becomes triggered in exactly the step that brings
\* realized_daily_pnl to or below -(daily_loss_limit * the day's starting
\* capital), and from then on no position is opened and it stays triggered
\* until reset_daily_tracking clears it.
C4_BreakerTriggersAndBlocks ==
    [][ LET reset == last_reset'.count # last_reset.count
        IN /\ ~reset => (risk_manager'.breaker_triggered
                            = (risk_manager.breaker_triggered \/ LossLimitReached(risk_manager')))
           /\ reset => ~risk_manager'.breaker_triggered
           /\ (risk_manager.breaker_triggered /\ ~reset) =>
                /\ risk_manager'.next_id = risk_manager.next_id
                /\ Len(risk_manager'.positions) <= Len(risk_manager.positions)
                /\ \A i \in (Len(trades) + 1)..Len(trades') : trades'[i].action # "open"
      ]_vars

C4_Witness ==
    /\ risk_manager.breaker_triggered
    /\ risk_manager.realized_daily_pnl = -50000
    /\ risk_manager.current_capital = InitialCapital - 50000
    /\ pc = "next_row"
    /\ row.final_long
    /\ OpenedThisBar = {}

\* C5: a position's status only moves forward along OPEN, PARTIALLY_CLOSED,
\* CLOSED; a closed position is never changed again and is not among the open
\* positions, and every open position is OPEN or PARTIALLY_CLOSED.
C5_StatusForwardClosedTerminal ==
    [][ /\ \A id \in 1..Len(book) :
              /\ StatusRank(book'[id].status) >= StatusRank(book[id].status)
              /\ book[id].status = "CLOSED" => book'[id] = book[id]
        /\ \A id \in 1..Len(book') :
              LET i == IndexOfId(risk_manager'.positions, id)
              IN IF book'[id].status = "CLOSED"
                 THEN i = 0
                 ELSE /\ i # 0
                      /\ risk_manager'.positions[i].status = book'[id].status
                      /\ book'[id].status \in {"OPEN", "PARTIALLY_CLOSED"}
        /\ \A id \in 1..Len(book) :
              (book[id].status = "CLOSED" /\ Len(bar_log') > Len(bar_log)) =>
                  ~(Last(bar_log').ev = "update" /\ Last(bar_log').id = id)
      ]_vars

C5_Witness ==
    /\ last_update.before = "PARTIALLY_CLOSED"
    /\ last_update.after = "CLOSED"
    /\ last_update.reason = "stop_loss"

\* C6: in every update_position call, a position whose stop-loss condition
\* holds is closed with reason stop_loss; a take-profit reason is given only
\* when the stop-loss condition does not hold, and max_bars only when neither
\* the stop-loss nor the take-profit condition holds.
C6_ExitPrecedence ==
    /\ last_update.stop_hit => last_update.reason = "stop_loss"
    /\ (~last_update.stop_hit /\ last_update.target_hit) =>
            last_update.reason \in {"tp1", "tp2", "runner"}
    /\ (~last_update.stop_hit /\ ~last_update.target_hit /\ last_update.max_bars_hit) =>
            last_update.reason = "max_bars"
    /\ (/\ last_update.reason # "none"
        /\ bar_log # <<>>
        /\ Last(bar_log) = [ev |-> "update", id |-> last_update.id]) =>
            /\ trades # <<>>
            /\ Last(trades).action = "close"
            /\ Last(trades).position_id = last_update.id
            /\ Last(trades).exit_reason = last_update.reason

C6_Witness ==
    /\ last_update.stop_hit
    /\ last_update.target_hit
    /\ last_update.reason = "stop_loss"
    /\ last_update.status = "fully_closed"
    /\ Last(trades).exit_reason = "stop_loss"

\* C7: in every bar, update_position is called exactly once for each position
\* open at the start of the bar, in position order, before any open_position
\* call of the bar, and never for a position opened on that bar.
C7_UpdatesBeforeEntries ==
    \A updated \in {UpdatedIds} :
        /\ pc = "update" => updated = SubSeq(open_at_bar_start, 1, Len(updated))
        /\ pc \in {"next_row", "done"} => updated = open_at_bar_start
        /\ \A i, j \in 1..Len(bar_log) :
              (IsOpenEvent(bar_log[i]) /\ IsUpdateEvent(bar_log[j])) => j < i
        /\ \A i \in 1..Len(updated) : updated[i] \notin OpenedThisBar
        /\ \A i, j \in 1..Len(updated) : i < j => updated[i] < updated[j]

C7_Witness ==
    /\ pc = "next_row"
    /\ Len(open_at_bar_start) = 1
    /\ Len(bar_log) = 2
    /\ bar_log[1] = [ev |-> "update", id |-> 1]
    /\ bar_log[2] = [ev |-> "open_position", id |-> 2]

\* C8 (as claimed): when the run is over the equity curve has one point per
\* bar processed, and its last point is current_capital plus the unrealized
\* pnl of the positions open at the last bar.
C8_OnePointPerBar ==
    pc = "done" =>
        /\ Len(EquityCurve) = bar_idx
        /\ bar_idx > 0 =>
              Last(EquityCurve) = risk_manager.current_capital
                                    + SumUnrealized(risk_manager.positions,
                                                    Len(risk_manager.positions), row.close)

\* C9: on a day rollover the prior day's summary is taken first and the reset
\* second, before any update or entry of the bar; every summary holds the
\* realized pnl of its own day and the capital at the end of that day; when
\* the run is over there is one summary per calendar day, in date order.
C9_RolloverSnapshotThenReset ==
    /\ \A i \in 1..Len(bar_log) :
          /\ bar_log[i].ev = "summary" => (i = 1 /\ Len(bar_log) >= 2 /\ bar_log[2].ev = "reset")
          /\ bar_log[i].ev = "reset" => (i = 2 /\ bar_log[1].ev = "summary")
    /\ pc # "done" => last_reset.count = Len(daily_summaries)
    /\ \A i \in 1..Len(daily_summaries) :
          /\ daily_summaries[i].realized_daily_pnl = day_realized[daily_summaries[i].date]
          /\ daily_summaries[i].current_capital
                = InitialCapital + SumDays(daily_summaries[i].date)
    /\ \A i, j \in 1..Len(daily_summaries) :
          i < j => daily_summaries[i].date < daily_summaries[j].date
    /\ pc \in {"update", "next_row"} =>
          {daily_summaries[i].date : i \in 1..Len(daily_summaries)} = days_seen \ {current_date}
    /\ pc = "done" =>
          /\ Len(daily_summaries) = Cardinality(days_seen)
          /\ {daily_summaries[i].date : i \in 1..Len(daily_summaries)} = days_seen

C9_Witness ==
    /\ pc = "done"
    /\ Len(daily_summaries) >= 2
    /\ daily_summaries[1].realized_daily_pnl # 0
    /\ daily_summaries[1].breaker_triggered

\* C10: reset_daily_tracking zeroes realized_daily_pnl and clears
\* breaker_triggered; current_capital, the open positions with their
\* quantities and the id counter are the same after the reset as before it,
\* and the ledger is not touched.
C10_ResetFrame ==
    [][ last_reset'.count # last_reset.count =>
          /\ risk_manager'.realized_daily_pnl = 0
          /\ ~risk_manager'.breaker_triggered
          /\ risk_manager'.current_capital = risk_manager.current_capital
          /\ risk_manager'.positions = risk_manager.positions
          /\ risk_manager'.next_id = risk_manager.next_id
          /\ trades' = trades
          /\ last_reset'.before = risk_manager
          /\ last_reset'.after = risk_manager'
      ]_vars

C10_Witness ==
    /\ last_reset.count > 0
    /\ last_reset.before.breaker_triggered
    /\ last_reset.before.realized_daily_pnl < 0
    /\ last_reset.before.current_capital # InitialCapital
    /\ Len(last_reset.before.positions) > 0
    /\ last_reset.after.current_capital = last_reset.before.current_capital
    /\ last_reset.after.positions = last_reset.before.positions
    /\ pc = "update"

\* C11: whenever the breaker is triggered or the computed quantity is not
\* positive, open_position (for either side, at the close of the current row)
\* returns no position and the risk manager it leaves is the one it was
\* given; an entry step appends one 'open' record for each
\* position open_position returned, and none for a call that returned None.
C11_NoPositionIsSilent ==
    [][ /\ \A side \in {"buy", "sell"} :
              (\/ risk_manager'.breaker_triggered
               \/ SizeQuantity(risk_manager'.current_capital, risk_manager'.risk_per_trade,
                               row'.close, EntryStopPrice(side, row'.close)) <= 0)
                 => \E res \in {open_position(risk_manager', side, row'.close,
                                               EntryStopPrice(side, row'.close), mult)} :
                       res.position = <<>> /\ res.rm = risk_manager'
        /\ (pc = "update" /\ pc' = "next_row") =>
              \E calls \in {SubSeq(bar_log', Len(bar_log) + 1, Len(bar_log'))} :
              \E new \in {SubSeq(trades', Len(trades) + 1, Len(trades'))} :
              \E opened \in {SelectSeq(calls, IsOpened)} :
                 /\ Len(new) = Len(opened)
                 /\ \A i \in 1..Len(new) :
                       new[i].action = "open" /\ new[i].position_id = opened[i].id
                 /\ Len(risk_manager'.positions) = Len(risk_manager.positions) + Len(opened)
                 /\ Len(opened) = 0 => risk_manager' = risk_manager
                 /\ \A i \in 1..Len(calls) :
                       calls[i].id = 0 <=>
                          SizeQuantity(risk_manager.current_capital,
                                       risk_manager.risk_per_trade,
                                       row.close, EntryStopPrice("buy", row.close)) <= 0
      ]_vars

C11_Witness ==
    /\ pc = "next_row"
    /\ row.final_long
    /\ row.final_short
    /\ bar_log = <<[ev |-> "open_position", id |-> 0], [ev |-> "open_position", id |-> 0]>>
    /\ risk_manager = AdvancedRiskManager(0)
    /\ trades = <<>>

\* C12: an update_position call that closes part of a position at tp1 or tp2
\* moves current_capital (and realized_daily_pnl) by the pnl of the released
\* quantity and by nothing else; the pnl of what remains reaches
\* current_capital in the call that closes the remainder.
C12_PartialCloseRealizesReleasedOnly ==
    [][ (/\ Len(bar_log') = Len(bar_log) + 1
         /\ Last(bar_log').ev = "update"
         /\ last_update'.status \in {"partially_closed", "fully_closed"}) =>
           \E id \in {last_update'.id} :
           \E p \in {risk_manager.positions[IndexOfId(risk_manager.positions, id)]} :
           \E released \in {book[id].remaining_quantity - book'[id].remaining_quantity} :
           \E pnl \in {(IF p.side = "buy" THEN row.close - p.entry_price
                                           ELSE p.entry_price - row.close) * released} :
              /\ released > 0
              /\ p.remaining_quantity = book[id].remaining_quantity
              /\ last_update'.status = "partially_closed" =>
                    /\ last_update'.reason \in {"tp1", "tp2"}
                    /\ released < p.remaining_quantity
              /\ last_update'.status = "fully_closed" => released = p.remaining_quantity
              /\ risk_manager'.current_capital = risk_manager.current_capital + pnl
              /\ risk_manager'.realized_daily_pnl = risk_manager.realized_daily_pnl + pnl
              /\ Last(trades').quantity = released
              /\ Last(trades').pnl = pnl
      ]_vars

C12_Witness ==
    /\ pc = "update"
    /\ bar_log # <<>>
    /\ Last(bar_log).ev = "update"
    /\ last_update.status = "partially_closed"
    /\ last_update.reason = "tp1"
    /\ Last(trades).pnl > 0
    /\ risk_manager.current_capital = InitialCapital + Last(trades).pnl
    /\ \E i \in 1..Len(risk_manager.positions) :
          /\ risk_manager.positions[i].id = last_update.id
          /\ risk_manager.positions[i].remaining_quantity > 0
          /\ RealizedPnl(risk_manager.positions[i], row.close,
                         risk_manager.positions[i].remaining_quantity) > 0

\* C13: every position an entry step opens has quantity * |entry - stop| equal
\* to current_capital * risk_per_trade (to within one quantum of quantity and
\* one cent of risk amount), and tp1, tp2 and runner_activation at entry plus
\* (long) or minus (short) the multiplier times the risk distance; capital
\* 10000, risk 0.02, entry 100, stop 98, tp1_multiplier 1.5 give quantity 100
\* and tp1 103.
C13_SizedFromRiskBudget ==
    [][ (pc = "update" /\ pc' = "next_row") =>
          \A i \in (Len(risk_manager.positions) + 1)..Len(risk_manager'.positions) :
             \E p \in {risk_manager'.positions[i]} :
             \E rd \in {Abs(p.entry_price * 100 - p.stop_loss_price)} :
             \E budget \in {risk_manager.current_capital * risk_manager.risk_per_trade} :
             \E sign \in {IF p.side = "buy" THEN 1 ELSE -1} :
                /\ p.entry_price = row.close
                /\ p.stop_loss_price = EntryStopPrice(p.side, row.close)
                /\ rd > 0
                /\ p.quantity > 0
                /\ p.quantity * rd * 100 <= budget
                /\ (p.quantity + 1) * rd * 100 + 10000 > budget
                /\ p.remaining_quantity = p.quantity
                /\ 2 * (p.tp1_price - p.entry_price * 100) = sign * mult.tp1 * rd
                /\ 2 * (p.tp2_price - p.entry_price * 100) = sign * mult.tp2 * rd
                /\ 2 * (p.runner_activation_price - p.entry_price * 100)
                      = sign * mult.runner * rd
                /\ (/\ risk_manager.current_capital = 1000000
                    /\ risk_manager.risk_per_trade = 200
                    /\ p.entry_price = 100 /\ p.side = "buy" /\ mult.tp1 = 3) =>
                       (p.stop_loss_price = 9800 /\ p.quantity = 10000 /\ p.tp1_price = 10300)
      ]_vars

C13_Witness ==
    /\ pc = "next_row"
    /\ risk_manager.current_capital = 1000000
    /\ Len(risk_manager.positions) = 2
    /\ \E p \in {risk_manager.positions[1]} :
          /\ p.side = "buy" /\ p.entry_price = 100 /\ p.stop_loss_price = 9800
          /\ p.quantity = 10000 /\ p.tp1_price = 10300
          /\ p.tp2_price = 10400 /\ p.runner_activation_price = 10600
    /\ \E p \in {risk_manager.positions[2]} :
          /\ p.side = "sell" /\ p.entry_price = 100 /\ p.stop_loss_price = 10200
          /\ p.quantity = 10000 /\ p.tp1_price = 9700
    /\ Len(bar_log) >= 2
    /\ Last(bar_log) = [ev |-> "open_position", id |-> 2]

\* C15 (as claimed): profit_factor is total_profit / total_loss and finite
\* whenever the ledger has a losing trade, is +infinity only when total_loss
\* is 0 and total_profit > 0, and is 0 when total_profit and total_loss are
\* both 0.
C15_ProfitFactorDefined ==
    (metrics_out # <<>> /\ "profit_factor" \in DOMAIN metrics_out[1]
                        /\ ClosedIn(metrics_in.trades) # {}) =>
        \E ledger \in {metrics_in.trades} :
        \E wins \in {{i \in ClosedIn(ledger) : ledger[i].pnl > 0}} :
        \E losses \in {{i \in ClosedIn(ledger) : ledger[i].pnl < 0}} :
        \E total_profit \in {SumOver(ledger, wins, Len(ledger))} :
        \E total_loss \in {-SumOver(ledger, losses, Len(ledger))} :
        \E pf \in {metrics_out[1].profit_factor} :
           /\ losses # {} => (pf.den # 0 /\ pf.num * total_loss = pf.den * total_profit)
           /\ pf = Infinity => (total_loss = 0 /\ total_profit > 0)
           /\ (total_profit = 0 /\ total_loss = 0) => pf = Zero

\* C16 (as claimed): the metrics of every ledger have the fields of the
\* metrics of the empty ledger, and a ledger without a closed trade has
\* win_rate, profit_factor, sharpe_ratio, max_drawdown and total_return 0.
C16_FixedMetricsFields ==
    metrics_out # <<>> =>
        /\ DOMAIN metrics_out[1] = DOMAIN calculate_enhanced_metrics(NoResults)
        /\ ClosedIn(metrics_in.trades) = {} =>
              /\ metrics_out[1].win_rate = Zero
              /\ metrics_out[1].profit_factor = Zero
              /\ metrics_out[1].sharpe_ratio = Zero
              /\ metrics_out[1].max_drawdown = Zero
              /\ metrics_out[1].total_return = Zero

\* C17 (as claimed): when the run is over, total_return is
\* (final equity - initial capital) / initial capital.
C17_TotalReturnFromInitialCapital ==
    (pc = "done" /\ bar_idx > 0 /\ metrics_out # <<>>
                 /\ "total_return" \in DOMAIN metrics_out[1]) =>
        metrics_out[1].total_return = TotalReturnFromInitial(EquityCurve)

\* C18: max_drawdown is the least of (equity - running peak) / running peak
\* over the equity curve: it is <= 0, at most every point's drawdown, equal to
\* the drawdown of some point, and 0 when no point is below its running peak;
\* for the curve [10000, 10500, 9800, 10200] the running peaks are
\* [10000, 10500, 10500, 10500] and max_drawdown is (9800 - 10500) / 10500.
C18_MaxDrawdownIsMinOverCurve ==
    (metrics_out # <<>> /\ "max_drawdown" \in DOMAIN metrics_out[1]) =>
        \E curve \in {EquityCurveOf(metrics_in.daily_summaries)} :
        \E dd \in {metrics_out[1].max_drawdown} :
           /\ dd.num <= 0
           /\ dd.den > 0
           /\ \A i \in 1..Len(curve) :
                 RatLessEq(PeakAt(curve, i) - curve[i], PeakAt(curve, i), -dd.num, dd.den)
           /\ \E i \in 1..Len(curve) :
                 dd = Rat(curve[i] - PeakAt(curve, i), PeakAt(curve, i))
           /\ (\A i \in 1..Len(curve) : curve[i] >= PeakAt(curve, i)) => dd = Zero
           /\ curve = <<1000000, 1050000, 980000, 1020000>> =>
                 /\ [i \in 1..4 |-> RunningPeak(curve, i)]
                       = <<1000000, 1050000, 1050000, 1050000>>
                 /\ dd = Rat(980000 - 1050000, 1050000)

C18_Witness ==
    /\ metrics_out # <<>>
    /\ EquityCurveOf(metrics_in.daily_summaries) = <<1000000, 1050000, 980000, 1020000>>
    /\ metrics_out[1].max_drawdown = [num |-> -1, den |-> 15]

\* C19 (as claimed): for every accepted weight configuration and sub-signals
\* that all lie in [-1, 1], weighted_signal lies in [-1, 1].
C19_WeightedSignalBounded ==
    \A i \in 1..Len(signal_out) :
        (/\ signal_out[i].rsi_signal # NaN
         /\ signal_out[i].wavetrend_signal # NaN
         /\ signal_out[i].buy_sell_signal # NaN) =>
            /\ signal_out[i].weighted_signal >= -(10 * WeightOne)
            /\ signal_out[i].weighted_signal <= 10 * WeightOne

\* C20 (as claimed): the simulator never processes a row dated before the row
\* preceding it, so no run over such rows has a result.
C20_UnorderedBarsRejected ==
    ts_regressed => (pc \notin {"update", "done"} /\ metrics_out = <<>>)

\* C21 (as claimed): once cancellation is requested the loop starts no further
\* bar: at the next bar boundary it returns what the bars fully processed have
\* produced; and a run ends only at a bar boundary.
C21_CancelStopsAtBarBoundary ==
    [][ /\ (cancel_requested /\ pc = "next_row") => pc' # "update"
        /\ pc' = "done" => pc \in {"next_row", "done"}
      ]_vars

\* C22: on a bar where the breaker is not triggered and final_long and
\* final_short are both true, open_position is called once for the long side
\* and then once for the short side; the positions opened are two separate
\* positions of the manager, and the ledger gets one 'open' record for each
\* position actually opened, and no other record.
C22_BothSidesEnterOnOneBar ==
    [][ (/\ pc = "update"
         /\ pc' = "next_row"
         /\ ~is_daily_breaker_triggered(risk_manager)
         /\ row.final_long
         /\ row.final_short) =>
            \E long \in {open_position(risk_manager, "buy", row.close,
                                       EntryStopPrice("buy", row.close), mult)} :
            \E short \in {open_position(long.rm, "sell", row.close,
                                        EntryStopPrice("sell", row.close), mult)} :
            \E opened \in {long.position \o short.position} :
               /\ risk_manager' = short.rm
               /\ Len(bar_log') = Len(bar_log) + 2
               /\ \A i \in (Len(bar_log) + 1)..Len(bar_log') : IsOpenEvent(bar_log'[i])
               /\ Len(trades') = Len(trades) + Len(opened)
               /\ SubSeq(trades', 1, Len(trades)) = trades
               /\ \A k \in 1..Len(opened) :
                     /\ trades'[Len(trades) + k].action = "open"
                     /\ trades'[Len(trades) + k].position_id = opened[k].id
                     /\ trades'[Len(trades) + k].side = opened[k].side
                     /\ trades'[Len(trades) + k].quantity = opened[k].quantity
                     /\ IndexOfId(risk_manager'.positions, opened[k].id) # 0
               /\ Len(opened) = 2 =>
                     /\ opened[1].id # opened[2].id
                     /\ opened[1].side = "buy"
                     /\ opened[2].side = "sell"
                     /\ Len(risk_manager'.positions) = Len(risk_manager.positions) + 2
      ]_vars

C22_Witness ==
    /\ pc = "next_row"
    /\ row.final_long
    /\ row.final_short
    /\ Len(risk_manager.positions) = 2
    /\ risk_manager.positions[1].side = "buy"
    /\ risk_manager.positions[2].side = "sell"
    /\ risk_manager.positions[1].remaining_quantity > 0
    /\ risk_manager.positions[2].remaining_quantity > 0
    /\ Len(trades) >= 2
    /\ Last(trades).action = "open"
    /\ Last(trades).side = "sell"
    /\ trades[Len(trades) - 1].action = "open"
    /\ trades[Len(trades) - 1].side = "buy"
    /\ trades[Len(trades) - 1].timestamp = Last(trades).timestamp
    /\ Len(bar_log) >= 2
    /\ IsOpened(Last(bar_log))
    /\ IsOpened(bar_log[Len(bar_log) - 1])

\* C25: the breaker is checked after the bar's updates and before its entries:
\* when the breaker is triggered at the end of the update loop (an exit of the
\* bar has brought the day's loss to the limit) no open_position call is made
\* on the bar and nothing is opened, whatever the signals; when it is not
\* triggered a call is made for every signal that is set. On the first bar of
\* a new day the reset comes first: the bar's updates and entries start from a
\* breaker that is not triggered.
C25_BreakerCheckedBetweenUpdatesAndEntries ==
    [][ /\ (pc = "update" /\ pc' = "next_row") =>
              /\ Len(UpdatedIds) = Len(open_at_bar_start)
              /\ risk_manager.breaker_triggered =>
                    /\ bar_log' = bar_log
                    /\ trades' = trades
                    /\ risk_manager' = risk_manager
              /\ ~risk_manager.breaker_triggered =>
                    Len(bar_log') = Len(bar_log) + Count(row.final_long)
                                                 + Count(row.final_short)
        /\ (pc = "next_row" /\ pc' = "update" /\ bar_idx > 0 /\ row'.date # row.date) =>
              /\ ~risk_manager'.breaker_triggered
              /\ risk_manager'.realized_daily_pnl = 0
              /\ SelectSeq(bar_log', IsUpdateEvent) = <<>>
              /\ SelectSeq(bar_log', IsOpenEvent) = <<>>
      ]_vars

\* An exit of the bar has triggered the breaker and the bar's long signal opened nothing.
C25_Witness ==
    /\ pc = "next_row"
    /\ row.final_long
    /\ risk_manager.breaker_triggered
    /\ last_update.reason # "none"
    /\ bar_log # <<>>
    /\ Last(bar_log) = [ev |-> "update", id |-> last_update.id]
    /\ Last(trades).action = "close"
    /\ Last(trades).pnl < 0
    /\ risk_manager.realized_daily_pnl = Last(trades).pnl
    /\ OpenedThisBar = {}

\* The breaker was triggered the day before and the first bar of the new day opened a position.
C25_WitnessNextDay ==
    /\ pc = "next_row"
    /\ Len(bar_log) >= 3
    /\ bar_log[2].ev = "reset"
    /\ last_reset.before.breaker_triggered
    /\ IsOpened(Last(bar_log))
    /\ Last(trades).action = "open"

\* C23: the WaveTrend sub-signal is one of 1.0, -1.0, 0.5, -0.5: 1.0 exactly
\* when WT1 > WT2 and WT1 < -50, -1.0 exactly when WT1 < WT2 and WT1 > 50, 0.5
\* exactly when WT1 > WT2 otherwise, -0.5 in every other case; a tie WT1 = WT2
\* gives -0.5 at every level of WT1.
C23_WavetrendFourValues ==
    wt_call.signal # <<>> =>
        \E wt1 \in {wt_call.wt1}, wt2 \in {wt_call.wt2}, sig \in {wt_call.signal[1]} :
        \E above \in {wt1 # NaN /\ wt2 # NaN /\ wt1 > wt2} :
        \E below \in {wt1 # NaN /\ wt2 # NaN /\ wt1 < wt2} :
           /\ sig \in {10, -10, 5, -5}
           /\ sig = 10 <=> (above /\ wt1 < -50)
           /\ sig = -10 <=> (below /\ wt1 > 50)
           /\ sig = 5 <=> (above /\ ~(wt1 < -50))
           /\ sig = -5 <=> (~above /\ ~(below /\ wt1 > 50))
           /\ wt1 = wt2 => sig = -5

\* A tie while WT1 is oversold, and a tie while it is overbought.
C23_Witness ==
    /\ wt_call.signal = <<-5>>
    /\ wt_call.wt1 = wt_call.wt2
    /\ wt_call.wt1 \in {-60, 60}

\* C24: get_signal_strength gives the label of the band the weighted signal
\* lies in (>= 0.7 Very Strong Buy, >= 0.3 Strong Buy, >= 0.1 Weak Buy, <= -0.7
\* Very Strong Sell, <= -0.3 Strong Sell, <= -0.1 Weak Sell, else Neutral), and
\* the label of -x is the mirror of the label of x.
C24_StrengthBandsSymmetric ==
    strength_call.label # "none" =>
        \E x \in {strength_call.weighted_signal}, label \in {strength_call.label} :
        \E m \in {IF x = NaN THEN 0 ELSE Abs(x)} :
           /\ label \in {"Very Strong Buy", "Strong Buy", "Weak Buy", "Neutral",
                         "Weak Sell", "Strong Sell", "Very Strong Sell"}
           /\ (x = NaN \/ m < 10000) <=> label = "Neutral"
           /\ (x # NaN /\ m >= 70000) <=> label \in {"Very Strong Buy", "Very Strong Sell"}
           /\ (x # NaN /\ m >= 30000 /\ m < 70000) <=> label \in {"Strong Buy", "Strong Sell"}
           /\ (x # NaN /\ m >= 10000 /\ m < 30000) <=> label \in {"Weak Buy", "Weak Sell"}
           /\ label \in {"Very Strong Buy", "Strong Buy", "Weak Buy"} => x > 0
           /\ label \in {"Very Strong Sell", "Strong Sell", "Weak Sell"} => x < 0
           /\ get_signal_strength(Neg(x)) = MirrorLabel(label)

C24_Witness ==
    /\ strength_call.weighted_signal = -70000
    /\ strength_call.label = "Very Strong Sell"

\* C26: on every script run that gets to the live block, where trading is active, a position is
\* open and no order call raises, the exit conditions are evaluated and the equity point is appended,
\* whatever the bar's entry signal is; a position whose price has reached its
\* stop price is closed on that run.
C26_ExitCheckedOnEveryRerun ==
    [][ ( /\ runs' = runs + 1
          /\ last_run'.block # "none"
          /\ ~last_run'.raised
          /\ session_state.position # <<>>
          /\ session_state'.is_trading )
        => ( /\ last_run'.exit_checked
             /\ last_run'.equity_appended
             /\ LiveStopReached(session_state.position[1], last_run'.price)
                    => last_run'.exited ) ]_vars

\* C27: across any sequence of dashboard actions, the live block processes
\* trades in real mode (is_trading true, paper mode false) only if API keys are
\* configured and the account validation result is valid.
C27_RealTradingOnlyWhenValidated ==
    (last_run.block = "ran" /\ ~last_run.paper)
        => (api_keys /\ session_state.account_validation = "valid")

\* C28: in the live driver an entry is made only when no position is open (none
\* before the run, or the one open was closed earlier in the run), each entry
\* appends exactly one trade record, an exit leaves no position (until an entry
\* of the same run), and the cash changes only at an exit, by that position's
\* (price - entry_price) * qty.
C28_OnePositionCashOnlyAtExit ==
    [][ runs' = runs + 1 =>
        \E ss \in {session_state}, ss2 \in {session_state'}, run \in {last_run'} :
           /\ Len(ss2.position) <= 1
           /\ run.entered =>
                 /\ ss.position = <<>> \/ run.exited
                 /\ ss2.position # <<>>
                 /\ ~run.backtest_ran =>
                       /\ Len(ss2.trades) = Len(ss.trades) + 1
                       /\ Last(ss2.trades).entry_idx = ss2.position[1].entry_idx
                       /\ Last(ss2.trades).entry_price = ss2.position[1].entry_price
                       /\ Last(ss2.trades).qty = ss2.position[1].qty
           /\ (~run.entered /\ ~run.backtest_ran) => Len(ss2.trades) = Len(ss.trades)
           /\ run.exited =>
                 /\ ss.position # <<>>
                 /\ ss2.position = <<>> \/ run.entered
                 /\ ss2.account.cash = ss.account.cash
                       + (run.price - ss.position[1].entry_price) * ss.position[1].qty
           /\ ~run.exited =>
                 /\ ss2.account.cash = ss.account.cash
                 /\ ss.position # <<>> => ss2.position = ss.position ]_vars

\* A run that closed a position with a gain and entered the next one.
C28_Witness ==
    /\ last_run.exited
    /\ last_run.entered
    /\ session_state.account.cash > LiveInitialCash
    /\ Len(session_state.trades) = 2
    /\ session_state.position # <<>>

\* C29: the trade record that receives exit_price and pnl at an exit is the
\* record appended when the position being closed was entered, also when a
\* backtest was run between the entry and the exit; the records of other trades
\* are never modified. (Compared on runs where the trades are not replaced by a
\* backtest after the live block.)
C29_ExitWritesItsOwnRecord ==
    [][ (runs' = runs + 1 /\ ~last_run'.backtest_ran) =>
        \E old \in {session_state.trades}, new \in {session_state'.trades} :
           /\ Len(new) >= Len(old)
           /\ IF last_run'.exited
              THEN \E pos \in {session_state.position[1]} :
                   \E i \in 1..Len(old) :
                      /\ old[i] = [ entry_idx |-> pos.entry_idx,
                                    entry_price |-> pos.entry_price,
                                    qty |-> pos.qty, strategy |-> "strategy" ]
                      /\ new[i].exit_price = last_run'.price
                      /\ new[i].pnl = (last_run'.price - pos.entry_price) * pos.qty
                      /\ \A j \in (1..Len(old)) \ {i} : new[j] = old[j]
              ELSE \A j \in 1..Len(old) : new[j] = old[j] ]_vars

\* C30 (as claimed): when a step of the live trading logic raises, is_trading is false at the
\* end of that script run; and while is_trading is false, a run other than a
\* press of the start button processes no entry and no exit (the live block is
\* not run; position, cash and is_trading stay as they are).
C30_ErrorStopsTrading ==
    [][ runs' = runs + 1 =>
        /\ last_run'.raised => ~session_state'.is_trading
        /\ (~session_state.is_trading /\ ~last_run'.start_pressed) =>
              /\ last_run'.block # "ran"
              /\ ~last_run'.exited /\ ~last_run'.entered
              /\ ~session_state'.is_trading
              /\ session_state'.position = session_state.position
              /\ session_state'.account.cash = session_state.account.cash ]_vars

====
